---- MODULE Spec2Model ----
(***************************************************************************)
(* BetTracker (bielsr01/Betv4): paired sports-arbitrage bets.              *)
(*                                                                         *)
(* Decimal amounts (stake, payout, totalPairStake) are the columns         *)
(* decimal(10,2) of shared/schema.ts; a value is held here as the integer  *)
(* number of hundredths, so 100 reads 1.00.  The Dashboard arithmetic is   *)
(* sums and differences only, so it is exact on these integers.            *)
(***************************************************************************)
EXTENDS Integers, Sequences, FiniteSets, TLC

VARIABLES
    bets,        \* BetTracker state `bets` / the Dashboard prop `bets`
    view,        \* what the Dashboard last rendered from `bets`
    metricsIn,   \* the arguments of a call of calculatePairMetrics
    metricsOut,  \* the value that call returned
    storage,     \* the rows of table `bets` (server/storage.ts)
    nextId,      \* the number of the next row: its id and its createdAt
    currentState,    \* BetTracker state: the screen shown
    currentOCRData,  \* BetTracker state: "null", or "set" once an OCR result
                     \* is held (its content is read once, into formData)
    currentImageUrl, \* BetTracker state: "" or the preview URL
    formData,    \* OCRVerification state while that screen is mounted
    errors,      \* OCRVerification state: the keys with an error message
    calls,       \* the async handlers in flight in the browser, each at an await
    response,    \* the last answer of a route of /api/bets: route and status code
    validatorIn, \* the arguments of a call of a validator of shared/schema.ts
    validatorOut, \* what each validator returned for them
    helperIn,    \* the argument of a call of a helper of BetTracker
    helperOut,   \* what the helper returned, or that it threw
    reportsView  \* what the Reports component last rendered from `bets`

vars == <<bets, view, metricsIn, metricsOut, storage, nextId, currentState,
          currentOCRData, currentImageUrl, formData, errors, calls,
          response, validatorIn, validatorOut, helperIn, helperOut, reportsView>>

serverVars == <<storage, nextId>>

screenVars == <<currentState, currentOCRData, currentImageUrl, formData, errors>>

appVars == <<serverVars, screenVars, calls>>

dashVars == <<bets, view>>

metricsVars == <<metricsIn, metricsOut>>

validatorVars == <<validatorIn, validatorOut>>

helperVars == <<helperIn, helperOut, reportsView>>

\* what the browser steps and the pure calls leave alone
otherVars == <<response, validatorVars, helperVars>>

(***************************************************************************)
(* Bounds and input sets                                                   *)
(***************************************************************************)
MaxLegs == 3

PairIds == {"p1", "p2"}

Positions == {"A", "B"}

Statuses == {"pending", "won", "lost", "returned"}

\* stake and payout of a leg, as stored
Terms == {[stake |-> 100, payout |-> 250], [stake |-> 150, payout |-> 225]}

\* the fields of a Bet row that the Dashboard statistics read
DashLegs ==
    {[pairId |-> p, betPosition |-> pos, status |-> s,
      stake |-> t.stake, payout |-> t.payout] :
        p \in PairIds, pos \in Positions, s \in Statuses, t \in Terms}

NoBet == [betPosition |-> "none"]

NoStat == [pairId |-> "none"]

NoView == [rendered |-> FALSE]

NoCall == [called |-> FALSE]

NoForm == [mounted |-> FALSE]

NoResponse == [route |-> "none", code |-> 0]

\* arguments of calculatePairMetrics: any numbers, negative and zero included
MetricStakes == {0 - 100, 0, 100, 150}

MetricPayouts == {0, 225, 250}

(***************************************************************************)
(* JavaScript numbers that are not integers.  A quotient is kept exactly,  *)
(* as a fraction in lowest terms with a positive denominator; a division   *)
(* by zero gives NaN or an infinity, as in IEEE 754.  The rounding of a    *)
(* double is not represented.                                              *)
(***************************************************************************)
RECURSIVE GCD(_, _)
GCD(a, b) == IF b = 0 THEN a ELSE GCD(b, a % b)

Abs(x) == IF x < 0 THEN 0 - x ELSE x

NaN == [kind |-> "NaN"]

Infinity(sign) == [kind |-> "Infinity", sign |-> sign]

Rat(n, d) ==
    LET g == GCD(Abs(n), Abs(d))
        s == IF d < 0 THEN 0 - 1 ELSE 1
    IN  [kind |-> "finite", num |-> (s * n) \div g, den |-> (s * d) \div g]

\* n / d on numbers
Divide(n, d) ==
    IF d # 0 THEN Rat(n, d)
    ELSE IF n = 0 THEN NaN
    ELSE Infinity(IF n < 0 THEN 0 - 1 ELSE 1)

\* v * k for an integer k > 0
Times(v, k) == IF v.kind = "finite" THEN Rat(v.num * k, v.den) ELSE v

(***************************************************************************)
(* shared/schema.ts: calculatePairMetrics                                  *)
(***************************************************************************)
profitPercentageOf_NoGuard(payout, totalStake) ==
    Times(Divide(payout - totalStake, totalStake), 100)

profitPercentageOf_OwnPayout(payout, totalStake) ==
    IF totalStake > 0 THEN Times(Divide(payout, totalStake), 100) ELSE Rat(0, 1)

\* totalStake > 0 ? ((payoutX - totalStake) / totalStake) * 100 : 0
profitPercentageOf(payout, totalStake) ==
    IF totalStake > 0
        THEN Times(Divide(payout - totalStake, totalStake), 100)
        ELSE Rat(0, 1)

calculatePairMetrics(stakeA, stakeB, payoutA, payoutB) ==
    LET totalStake == stakeA + stakeB
    IN  [totalStake |-> totalStake,
         profitPercentageA |-> profitPercentageOf(payoutA, totalStake),
         profitPercentageB |-> profitPercentageOf(payoutB, totalStake)]

(***************************************************************************)
(* Dashboard: grouping of legs into pairs                                  *)
(***************************************************************************)
\* bets.reduce(...): pairId -> the legs with that pairId, in list order
pairsOf(bs) ==
    [p \in {bs[i].pairId : i \in DOMAIN bs} |->
        SelectSeq(bs, LAMBDA b : b.pairId = p)]

\* pairBets.sort by betPosition.localeCompare: a stable sort, A before B
sortedBetsOf(pairBets) ==
    SelectSeq(pairBets, LAMBDA b : b.betPosition = "A")
        \o SelectSeq(pairBets, LAMBDA b : b.betPosition = "B")
        \o SelectSeq(pairBets, LAMBDA b : b.betPosition \notin {"A", "B"})

\* sortedBets.find(bet => bet.betPosition === pos): the first hit or undefined
findPosition(sortedBets, pos) ==
    LET hits == SelectSeq(sortedBets, LAMBDA b : b.betPosition = pos)
    IN  IF hits = <<>> THEN NoBet ELSE Head(hits)

(***************************************************************************)
(* Dashboard: resolution of one complete pair                              *)
(***************************************************************************)
wonLegOf_PreferB(betA, betB) ==
    IF betB.status = "won" THEN betB
    ELSE IF betA.status = "won" THEN betA
    ELSE NoBet

\* const wonLeg = statusA === 'won' ? betA : statusB === 'won' ? betB : null
wonLegOf(betA, betB) ==
    IF betA.status = "won" THEN betA
    ELSE IF betB.status = "won" THEN betB
    ELSE NoBet

anyPending_Both(statusA, statusB) ==
    statusA = "pending" /\ statusB = "pending"

\* statusA === 'pending' || statusB === 'pending'
anyPending(statusA, statusB) ==
    statusA = "pending" \/ statusB = "pending"

bothReturned_Negated(returnedA, returnedB) ==
    returnedA /\ ~returnedB

\* returnedA && returnedB
bothReturned(returnedA, returnedB) ==
    returnedA /\ returnedB

\* (returnedA ? stakeA : 0) + (returnedB ? stakeB : 0)
returnedAmountOf(returnedA, returnedB, stakeA, stakeB) ==
    (IF returnedA THEN stakeA ELSE 0) + (IF returnedB THEN stakeB ELSE 0)

wonNetResult_NoReturned(wonLeg, returnedAmount, totalStake) ==
    wonLeg.payout - totalStake

\* netResult = Number(wonLeg.payout) + returnedAmount - totalStake
wonNetResult(wonLeg, returnedAmount, totalStake) ==
    wonLeg.payout + returnedAmount - totalStake

lostNetResult_NoReturned(returnedAmount, totalStake) ==
    0 - totalStake

\* netResult = returnedAmount - totalStake
lostNetResult(returnedAmount, totalStake) ==
    returnedAmount - totalStake

\* the if-chain that sets pairStatus and netResult
pairResolution(betA, betB) ==
    LET stakeA == betA.stake
        stakeB == betB.stake
        totalStake == stakeA + stakeB
        statusA == betA.status
        statusB == betB.status
        returnedA == statusA = "returned"
        returnedB == statusB = "returned"
        wonLeg == wonLegOf(betA, betB)
        returnedAmount == returnedAmountOf(returnedA, returnedB, stakeA, stakeB)
    IN  IF anyPending(statusA, statusB)
            THEN [status |-> "pending", netResult |-> 0]
        ELSE IF bothReturned(returnedA, returnedB)
            THEN [status |-> "returned", netResult |-> 0]
        ELSE IF wonLeg # NoBet
            THEN [status |-> "won",
                  netResult |-> wonNetResult(wonLeg, returnedAmount, totalStake)]
        ELSE [status |-> "lost",
              netResult |-> lostNetResult(returnedAmount, totalStake)]

incompleteStat_OwnStatus(existingBet) ==
    [pairId |-> existingBet.pairId, status |-> existingBet.status,
     totalStake |-> existingBet.stake, netResult |-> 0, incomplete |-> TRUE]

\* the record returned when only one leg of the pair exists
incompleteStat(existingBet) ==
    [pairId |-> existingBet.pairId, status |-> "pending",
     totalStake |-> existingBet.stake, netResult |-> 0, incomplete |-> TRUE]

\* the callback of Object.values(pairs).map(...); gameDate is carried through
\* unchanged and read by no statistic, so it is not part of the record here
pairStatOf(pairBets) ==
    LET sortedBets == sortedBetsOf(pairBets)
        betA == findPosition(sortedBets, "A")
        betB == findPosition(sortedBets, "B")
    IN  IF betA = NoBet /\ betB = NoBet THEN NoStat
        ELSE IF betA = NoBet \/ betB = NoBet
            THEN incompleteStat(IF betA # NoBet THEN betA ELSE betB)
        ELSE LET r == pairResolution(betA, betB)
             IN  [pairId |-> betA.pairId, status |-> r.status,
                  totalStake |-> betA.stake + betB.stake,
                  netResult |-> r.netResult, incomplete |-> FALSE]

\* pairStats, after .filter(Boolean): pairId -> its statistics record.  The
\* array order of Object.values is not kept: every consumer counts or sums.
pairStatsOf(bs) ==
    LET pairs == pairsOf(bs)
    IN  [p \in {q \in DOMAIN pairs : pairStatOf(pairs[q]) # NoStat} |->
            pairStatOf(pairs[p])]

(***************************************************************************)
(* Dashboard: aggregate statistics                                         *)
(***************************************************************************)
RECURSIVE SumOver(_, _, _)
\* array.reduce((acc, pair) => acc + pair[field], 0) over the pairs in S
SumOver(ps, S, field) ==
    IF S = {} THEN 0
    ELSE LET p == CHOOSE q \in S : TRUE
         IN  ps[p][field] + SumOver(ps, S \ {p}, field)

WithStatus(ps, s) == {p \in DOMAIN ps : ps[p].status = s}

\* const stats = {...}
statsOf(bs) ==
    LET ps == pairStatsOf(bs)
    IN  [totalPairs      |-> Cardinality(DOMAIN ps),
         completePairs   |-> Cardinality({p \in DOMAIN ps : ~ps[p].incomplete}),
         incompletePairs |-> Cardinality({p \in DOMAIN ps : ps[p].incomplete}),
         totalBets       |-> Len(bs),
         pendingPairs    |-> Cardinality(WithStatus(ps, "pending")),
         wonPairs        |-> Cardinality(WithStatus(ps, "won")),
         lostPairs       |-> Cardinality(WithStatus(ps, "lost")),
         returnedPairs   |-> Cardinality(WithStatus(ps, "returned")),
         totalStaked     |-> SumOver(ps, DOMAIN ps, "totalStake"),
         totalProfit     |-> SumOver(ps, WithStatus(ps, "won"), "netResult"),
         totalLoss       |-> Abs(SumOver(ps, WithStatus(ps, "lost"), "netResult"))]

netProfitOf_Sum(stats) == stats.totalProfit + stats.totalLoss

\* const netProfit = stats.totalProfit - stats.totalLoss
netProfitOf(stats) == stats.totalProfit - stats.totalLoss

\* one render of the Dashboard component from its prop
DashboardView(bs) ==
    [rendered |-> TRUE, pairStats |-> pairStatsOf(bs), stats |-> statsOf(bs),
     netProfit |-> netProfitOf(statsOf(bs))]

(***************************************************************************)
(* Specification of the Dashboard statistics: the prop is any list of at   *)
(* most MaxLegs legs, and the component renders it.                        *)
(***************************************************************************)
InitDashboard ==
    /\ \E k \in 0..MaxLegs : bets \in [1..k -> DashLegs]
    /\ view = NoView
    /\ metricsIn = NoCall
    /\ metricsOut = NoCall
    /\ storage = {}
    /\ nextId = 1
    /\ currentState = "dashboard"
    /\ currentOCRData = "null"
    /\ currentImageUrl = ""
    /\ formData = NoForm
    /\ errors = {}
    /\ calls = <<>>
    /\ response = NoResponse
    /\ validatorIn = NoCall
    /\ validatorOut = NoCall
    /\ helperIn = NoCall
    /\ helperOut = NoCall
    /\ reportsView = NoView

DashboardRender ==
    /\ view = NoView
    /\ view' = DashboardView(bets)
    /\ UNCHANGED <<bets, metricsVars, appVars, otherVars>>

NextDashboard == DashboardRender

SpecDashboard == InitDashboard /\ [][NextDashboard]_vars

(***************************************************************************)
(* Specification of calculatePairMetrics: a call with any arguments of the *)
(* input sets, and its return.                                             *)
(***************************************************************************)
InitMetrics ==
    /\ metricsIn \in [stakeA : MetricStakes, stakeB : MetricStakes,
                       payoutA : MetricPayouts, payoutB : MetricPayouts]
    /\ metricsOut = NoCall
    /\ bets = <<>>
    /\ view = NoView
    /\ storage = {}
    /\ nextId = 1
    /\ currentState = "dashboard"
    /\ currentOCRData = "null"
    /\ currentImageUrl = ""
    /\ formData = NoForm
    /\ errors = {}
    /\ calls = <<>>
    /\ response = NoResponse
    /\ validatorIn = NoCall
    /\ validatorOut = NoCall
    /\ helperIn = NoCall
    /\ helperOut = NoCall
    /\ reportsView = NoView

CalculatePairMetrics ==
    /\ metricsOut = NoCall
    /\ metricsOut' =
            [called |-> TRUE,
             value |-> calculatePairMetrics(metricsIn.stakeA, metricsIn.stakeB,
                                            metricsIn.payoutA, metricsIn.payoutB)]
    /\ UNCHANGED <<metricsIn, dashVars, appVars, otherVars>>

NextMetrics == CalculatePairMetrics

SpecMetrics == InitMetrics /\ [][NextMetrics]_vars

(***************************************************************************)
(* Texts of the verification form.  A numeric field holds one of a small   *)
(* vocabulary of texts; Number(text) is given for each, in hundredths.     *)
(***************************************************************************)
MaxBets == 3

MaxInFlight == 2

\* the texts Number() turns into a number
NumericTexts == {"", "0", "-1.00", "1.00", "1.50", "2.50"}

\* Number(text), in hundredths, for a text that is not NaN
NumberOf(text) ==
    CASE text = "" -> 0
      [] text = "0" -> 0
      [] text = "-1.00" -> 0 - 100
      [] text = "1.00" -> 100
      [] text = "1.50" -> 150
      [] text = "2.50" -> 250

\* isNaN(Number(text))
IsNaNText(text) == text \notin NumericTexts

\* text.trim()
TrimOf(text) ==
    CASE text = " " -> ""
      [] text = "flamengo " -> "flamengo"
      [] text = " Santos" -> "Santos"
      [] OTHER -> text

\* text.toLowerCase()
LowerOf(text) ==
    CASE text = "Flamengo" -> "flamengo"
      [] text = "Santos" -> "santos"
      [] text = "Palmeiras" -> "palmeiras"
      [] OTHER -> text

\* the texts typed or extracted for the stake of each bet and for the odds:
\* an empty stake, which validateForm refuses, and one stake per bet
StakeTexts(bet) == IF bet = "betA" THEN {"", "1.00"} ELSE {"", "1.50"}

OddsTexts == {"2.50"}

\* a date held as a string: its separator and its three groups of digits
DateString(sep, a, b, c) == [kind |-> "string", sep |-> sep, parts |-> <<a, b, c>>]

EmptyString == [kind |-> "string", sep |-> "", parts |-> <<>>]

Dash26092025 == DateString("-", <<2, 6>>, <<0, 9>>, <<2, 0, 2, 5>>)

\* what convertClaudeToOCRFormat hands to the verification screen, for the
\* responses of the extraction service considered here
OCRResults ==
    {[mounted |-> TRUE,
      betA |-> [bettingHouse |-> "Bet365", teamA |-> "Flamengo", teamB |-> "Santos",
                betType |-> "Over 2.5", odds |-> oA, stake |-> sA, profit |-> "1.50"],
      betB |-> [bettingHouse |-> "Betano", teamA |-> "Flamengo", teamB |-> "Santos",
                betType |-> "Under 2.5", odds |-> oB, stake |-> sB, profit |-> "1.00"],
      gameDate |-> Dash26092025, gameTime |-> "20:00", sport |-> "Futebol",
      league |-> "Serie A", totalProfitPercentage |-> "2.50"] :
        oA \in OddsTexts, sA \in StakeTexts("betA"),
        oB \in OddsTexts, sB \in StakeTexts("betB")}

(***************************************************************************)
(* OCRVerification.tsx: validateForm                                       *)
(***************************************************************************)
betErrors_ProfitPositive(form, bet) ==
    LET b == form[bet]
        key(field) == bet \o "." \o field
    IN  (IF TrimOf(b.bettingHouse) = "" THEN {key("bettingHouse")} ELSE {})
        \cup (IF TrimOf(b.teamA) = "" THEN {key("teamA")} ELSE {})
        \cup (IF TrimOf(b.teamB) = "" THEN {key("teamB")} ELSE {})
        \cup (IF TrimOf(b.betType) = "" THEN {key("betType")} ELSE {})
        \cup (IF b.odds = "" \/ IsNaNText(b.odds) \/ NumberOf(b.odds) <= 0
                THEN {key("odds")} ELSE {})
        \cup (IF b.stake = "" \/ IsNaNText(b.stake) \/ NumberOf(b.stake) <= 0
                THEN {key("stake")} ELSE {})
        \cup (IF b.profit = "" \/ IsNaNText(b.profit) \/ NumberOf(b.profit) <= 0
                THEN {key("profit")} ELSE {})

\* the checks of one bet block; key(field) is 'betA.field' or 'betB.field'
betErrors(form, bet) ==
    LET b == form[bet]
        key(field) == bet \o "." \o field
    IN  (IF TrimOf(b.bettingHouse) = "" THEN {key("bettingHouse")} ELSE {})
        \cup (IF TrimOf(b.teamA) = "" THEN {key("teamA")} ELSE {})
        \cup (IF TrimOf(b.teamB) = "" THEN {key("teamB")} ELSE {})
        \cup (IF TrimOf(b.betType) = "" THEN {key("betType")} ELSE {})
        \cup (IF b.odds = "" \/ IsNaNText(b.odds) \/ NumberOf(b.odds) <= 0
                THEN {key("odds")} ELSE {})
        \cup (IF b.stake = "" \/ IsNaNText(b.stake) \/ NumberOf(b.stake) <= 0
                THEN {key("stake")} ELSE {})
        \cup (IF b.profit = "" \/ IsNaNText(b.profit) THEN {key("profit")} ELSE {})

\* the checks of the game fields
gameErrors(form) ==
    (IF form.gameDate = EmptyString THEN {"gameDate"} ELSE {})
    \cup (IF form.sport = "" \/ TrimOf(form.sport) = "" THEN {"sport"} ELSE {})
    \cup (IF form.league = "" \/ TrimOf(form.league) = "" THEN {"league"} ELSE {})
    \cup (IF form.totalProfitPercentage = "" \/ IsNaNText(form.totalProfitPercentage)
            THEN {"totalProfitPercentage"} ELSE {})

\* const normalizeTeam = (team) => team.trim().toLowerCase()
normalizeTeam(team) == LowerOf(TrimOf(team))

\* the cross validation of the team names
teamErrors(form) ==
    IF \/ normalizeTeam(form.betA.teamA) # normalizeTeam(form.betB.teamA)
       \/ normalizeTeam(form.betA.teamB) # normalizeTeam(form.betB.teamB)
        THEN {"teams"} ELSE {}

validateForm_FirstOnly(form) ==
    LET all == betErrors(form, "betA") \cup betErrors(form, "betB")
                    \cup gameErrors(form) \cup teamErrors(form)
    IN  IF all = {} THEN {} ELSE {CHOOSE k \in all : TRUE}

\* the keys of newErrors
validateForm(form) ==
    betErrors(form, "betA") \cup betErrors(form, "betB")
        \cup gameErrors(form) \cup teamErrors(form)

(***************************************************************************)
(* BetTracker.handleOCRConfirm: the two request bodies                     *)
(***************************************************************************)
\* n / d rounded to the nearest integer, halves away from zero (d > 0)
RoundDiv(n, d) ==
    IF n >= 0 THEN (2 * n + d) \div (2 * d)
    ELSE 0 - ((2 * (0 - n) + d) \div (2 * d))

\* (Number(stake) * Number(odds)).toFixed(2): hundredths times hundredths is
\* ten-thousandths, rounded to hundredths
payoutToFixed2(stake, odds) == RoundDiv(NumberOf(stake) * NumberOf(odds), 100)

\* totalStake > 0 ? ((payoutX - totalStake) / totalStake) * 100 : 0, where
\* payoutX = Number(stake) * Number(odds) is not rounded
confirmProfitPercentage(stake, odds, totalStake) ==
    IF totalStake > 0
        THEN Times(Divide(NumberOf(stake) * NumberOf(odds) - 100 * totalStake,
                          100 * totalStake), 100)
        ELSE Rat(0, 1)

confirmTotalStake_OnlyA(data) == NumberOf(data.betA.stake)

\* const totalStake = stakeA + stakeB
confirmTotalStake(data) ==
    NumberOf(data.betA.stake) + NumberOf(data.betB.stake)

\* a gameDate that is a Date object: its UTC calendar fields
Digits2(n) == <<n \div 10, n % 10>>

Digits4(n) == <<n \div 1000, (n \div 100) % 10, (n \div 10) % 10, n % 10>>

\* formatGameDate
formatGameDate(gameDate) ==
    IF gameDate.kind = "Date"
        THEN DateString("-", Digits2(gameDate.day), Digits2(gameDate.month),
                        Digits4(gameDate.year))
    ELSE IF gameDate.sep = "/" THEN [gameDate EXCEPT !.sep = "-"]
    ELSE gameDate

\* betAData (bet = "betA") and betBData (bet = "betB")
betDataOf(data, bet, pairId) ==
    LET totalStake == confirmTotalStake(data)
    IN  [bettingHouse |-> data[bet].bettingHouse,
         teamA |-> data[bet].teamA,
         teamB |-> data[bet].teamB,
         betType |-> data[bet].betType,
         selectedSide |-> data[bet].betType,
         odds |-> data[bet].odds,
         stake |-> data[bet].stake,
         payout |-> payoutToFixed2(data[bet].stake, data[bet].odds),
         gameDate |-> formatGameDate(data.gameDate),
         gameTime |-> IF data.gameTime = "" THEN "00:00" ELSE data.gameTime,
         sport |-> data.sport,
         league |-> data.league,
         status |-> "pending",
         isVerified |-> TRUE,
         pairId |-> pairId,
         betPosition |-> IF bet = "betA" THEN "A" ELSE "B",
         totalPairStake |-> totalStake,
         profitPercentage |->
            confirmProfitPercentage(data[bet].stake, data[bet].odds, totalStake)]

(***************************************************************************)
(* server: POST /api/bets and DatabaseStorage                              *)
(***************************************************************************)
\* a decimal(5,2) column holds |value| < 1000.00
FitsDecimal52(hundredths) == Abs(hundredths) < 100000

\* the text of a number, stored in a decimal(p,2) column: rounded to hundredths
toDecimal2(v) == RoundDiv(v.num * 100, v.den)

\* dateStr.match(/^\d{2}-\d{2}-\d{4}$/)
IsDDMMYYYY(dateStr) ==
    /\ dateStr.sep = "-"
    /\ Len(dateStr.parts) = 3
    /\ Len(dateStr.parts[1]) = 2
    /\ Len(dateStr.parts[2]) = 2
    /\ Len(dateStr.parts[3]) = 4

\* createBet: formattedGameDate for a gameDate that is a string
formattedGameDateOf(gameDate) ==
    LET dateStr == IF gameDate.sep = "/" THEN [gameDate EXCEPT !.sep = "-"]
                   ELSE gameDate
    IN  IF IsDDMMYYYY(dateStr)
            THEN DateString("-", dateStr.parts[3], dateStr.parts[2], dateStr.parts[1])
            ELSE dateStr

\* the row that db.insert(bets).values(betData).returning() yields: the body
\* with the converted gameDate, the columns the database fills (id,
\* createdAt) and the decimal columns in hundredths
createBetRow(insertBet, id) ==
    [id |-> id,
     createdAt |-> id,
     teamA |-> insertBet.teamA,
     teamB |-> insertBet.teamB,
     betType |-> insertBet.betType,
     selectedSide |-> insertBet.selectedSide,
     bettingHouse |-> insertBet.bettingHouse,
     odds |-> NumberOf(insertBet.odds),
     stake |-> NumberOf(insertBet.stake),
     payout |-> insertBet.payout,
     gameDate |-> formattedGameDateOf(insertBet.gameDate),
     gameTime |-> insertBet.gameTime,
     sport |-> insertBet.sport,
     league |-> insertBet.league,
     status |-> insertBet.status,
     isVerified |-> insertBet.isVerified,
     pairId |-> insertBet.pairId,
     betPosition |-> insertBet.betPosition,
     totalPairStake |-> insertBet.totalPairStake,
     profitPercentage |-> toDecimal2(insertBet.profitPercentage)]

\* the insert is refused by the database (and the route answers 500) when a
\* decimal text is not a number or the percentage overflows decimal(5,2)
insertAccepted(insertBet) ==
    /\ ~IsNaNText(insertBet.odds) /\ insertBet.odds # ""
    /\ ~IsNaNText(insertBet.stake) /\ insertBet.stake # ""
    /\ insertBet.profitPercentage.kind = "finite"
    /\ FitsDecimal52(toDecimal2(insertBet.profitPercentage))

\* app.post("/api/bets"): selectedSide falls back to betType, then 'Unknown'
postBetBody(body) ==
    [body EXCEPT !.selectedSide =
        IF body.selectedSide # "" THEN body.selectedSide
        ELSE IF body.betType # "" THEN body.betType
        ELSE "Unknown"]

RECURSIVE SortByCreatedAtDesc(_)
\* the rows of S, newest first
SortByCreatedAtDesc(S) ==
    IF S = {} THEN <<>>
    ELSE LET newest == CHOOSE r \in S : \A o \in S : o.createdAt <= r.createdAt
         IN  <<newest>> \o SortByCreatedAtDesc(S \ {newest})

\* db.select().from(bets).orderBy(desc(bets.createdAt))
getAllBets == SortByCreatedAtDesc(storage)

(***************************************************************************)
(* The application: BetTracker with its verification screen, and the       *)
(* server behind /api/bets.  A request and its answer are one step.        *)
(***************************************************************************)
NavTargets == {"dashboard", "upload", "management"}

RemoveAt(seq, i) == SubSeq(seq, 1, i - 1) \o SubSeq(seq, i + 1, Len(seq))

\* the call of loadBets that every handler ends with
LoadCall == [kind |-> "load", pc |-> "load"]

\* useState initial values, the empty table, and the mount effect's loadBets
Init ==
    /\ bets = <<>>
    /\ view = NoView
    /\ metricsIn = NoCall
    /\ metricsOut = NoCall
    /\ storage = {}
    /\ nextId = 1
    /\ currentState = "dashboard"
    /\ currentOCRData = "null"
    /\ currentImageUrl = ""
    /\ formData = NoForm
    /\ errors = {}
    /\ calls = <<LoadCall>>
    /\ response = NoResponse
    /\ validatorIn = NoCall
    /\ validatorOut = NoCall
    /\ helperIn = NoCall
    /\ helperOut = NoCall
    /\ reportsView = NoView

\* sidebar buttons and the back link: setCurrentState(item.id); leaving the
\* verification screen unmounts OCRVerification and drops its state
Navigate ==
    \E target \in NavTargets :
        /\ target # currentState
        /\ currentState' = target
        /\ formData' = NoForm
        /\ errors' = {}
        /\ UNCHANGED <<currentOCRData, currentImageUrl, serverVars, calls,
                       dashVars, metricsVars, otherVars>>

\* handleImageUpload, processOCRFromImage resolving
HandleImageUpload ==
    /\ currentState = "upload"
    /\ \E ocr \in OCRResults : formData' = ocr
    /\ currentImageUrl' = "blob"
    /\ currentOCRData' = "set"
    /\ currentState' = "verification"
    /\ errors' = {}
    /\ UNCHANGED <<serverVars, calls, dashVars, metricsVars, otherVars>>

\* handleImageUpload, processOCRFromImage throwing
HandleImageUploadFailed ==
    /\ currentState = "upload"
    /\ currentImageUrl' = "blob"
    /\ UNCHANGED <<currentState, currentOCRData, formData, errors, serverVars,
                   calls, dashVars, metricsVars, otherVars>>

\* updateBetField(bet, field, value) for the odds and stake inputs
UpdateBetField ==
    /\ formData # NoForm
    /\ \E bet \in {"betA", "betB"}, field \in {"odds", "stake"} :
        \E value \in (IF field = "odds" THEN OddsTexts ELSE StakeTexts(bet)) :
            /\ value # formData[bet][field]
            /\ formData' = [formData EXCEPT ![bet][field] = value]
            /\ errors' = errors \ {bet \o "." \o field}
    /\ UNCHANGED <<currentState, currentOCRData, currentImageUrl, serverVars,
                   calls, dashVars, metricsVars, otherVars>>

\* handleSubmit when validateForm finds an error
HandleSubmitRejected ==
    /\ formData # NoForm
    /\ validateForm(formData) # {}
    /\ errors' = validateForm(formData)
    /\ UNCHANGED <<currentState, currentOCRData, currentImageUrl, formData,
                   serverVars, calls, dashVars, metricsVars, otherVars>>

\* handleSubmit when validateForm passes: onConfirm = handleOCRConfirm runs
\* up to its first await, with a pairId drawn by Math.random
HandleSubmitConfirmed ==
    /\ formData # NoForm
    /\ validateForm(formData) = {}
    /\ Len(calls) < MaxInFlight
    /\ errors' = {}
    /\ \E pairId \in PairIds :
        calls' = Append(calls,
                    [kind |-> "confirm", pc |-> "postA",
                     betAData |-> betDataOf(formData, "betA", pairId),
                     betBData |-> betDataOf(formData, "betB", pairId)])
    /\ UNCHANGED <<currentState, currentOCRData, currentImageUrl, formData,
                   serverVars, dashVars, metricsVars, otherVars>>

\* apiRequest of client/src/lib/queryClient: the promise rejects when the
\* answer is not a 2xx, so a refused creation reaches the caller's catch block
apiRequestThrows(code) == code \notin 200..299

\* the answers that end a request in the catch block: none at all (0, the
\* fetch itself rejected) or the 500 of the route
FailedAnswers == {code \in {0, 500} : code = 0 \/ apiRequestThrows(code)}

\* POST /api/bets answering 201
PostBet(body) ==
    /\ insertAccepted(postBetBody(body))
    /\ nextId <= MaxBets
    /\ storage' = storage \cup {createBetRow(postBetBody(body), nextId)}
    /\ nextId' = nextId + 1

\* handleOCRConfirm: the request for leg A succeeds
ConfirmPostA ==
    \E i \in DOMAIN calls :
        /\ calls[i].kind = "confirm" /\ calls[i].pc = "postA"
        /\ PostBet(calls[i].betAData)
        /\ ~apiRequestThrows(201)
        /\ calls' = [calls EXCEPT ![i].pc = "postB"]
        /\ UNCHANGED <<screenVars, dashVars, metricsVars, otherVars>>

ConfirmPostAFailed_Continues ==
    \E i \in DOMAIN calls :
        /\ calls[i].kind = "confirm" /\ calls[i].pc = "postA"
        /\ FailedAnswers # {}
        /\ calls' = [calls EXCEPT ![i].pc = "postB"]
        /\ UNCHANGED <<serverVars, screenVars, dashVars, metricsVars, otherVars>>

\* handleOCRConfirm: the request for leg A throws; the catch block ends the call
ConfirmPostAFailed ==
    \E i \in DOMAIN calls :
        /\ calls[i].kind = "confirm" /\ calls[i].pc = "postA"
        /\ FailedAnswers # {}
        /\ calls' = RemoveAt(calls, i)
        /\ UNCHANGED <<serverVars, screenVars, dashVars, metricsVars, otherVars>>

\* handleOCRConfirm: the request for leg B succeeds; the screen is cleaned up
\* and loadBets is called
ConfirmPostB ==
    \E i \in DOMAIN calls :
        /\ calls[i].kind = "confirm" /\ calls[i].pc = "postB"
        /\ PostBet(calls[i].betBData)
        /\ ~apiRequestThrows(201)
        /\ currentImageUrl' = ""
        /\ currentOCRData' = "null"
        /\ currentState' = "dashboard"
        /\ formData' = NoForm
        /\ errors' = {}
        /\ calls' = [calls EXCEPT ![i] = LoadCall]
        /\ UNCHANGED <<dashVars, metricsVars, otherVars>>

\* handleOCRConfirm: the request for leg B throws; the catch block ends the call
ConfirmPostBFailed ==
    \E i \in DOMAIN calls :
        /\ calls[i].kind = "confirm" /\ calls[i].pc = "postB"
        /\ FailedAnswers # {}
        /\ calls' = RemoveAt(calls, i)
        /\ UNCHANGED <<serverVars, screenVars, dashVars, metricsVars, otherVars>>

\* handleOCRCancel
HandleOCRCancel ==
    /\ formData # NoForm
    /\ currentImageUrl' = ""
    /\ currentOCRData' = "null"
    /\ currentState' = "upload"
    /\ formData' = NoForm
    /\ errors' = {}
    /\ UNCHANGED <<serverVars, calls, dashVars, metricsVars, otherVars>>

\* loadBets: GET /api/bets answers and setBets stores the list
LoadBets ==
    \E i \in DOMAIN calls :
        /\ calls[i].kind = "load"
        /\ bets' = getAllBets
        /\ calls' = RemoveAt(calls, i)
        /\ UNCHANGED <<view, serverVars, screenVars, metricsVars, otherVars>>

\* loadBets: the GET throws and is caught
LoadBetsFailed ==
    \E i \in DOMAIN calls :
        /\ calls[i].kind = "load"
        /\ calls' = RemoveAt(calls, i)
        /\ UNCHANGED <<serverVars, screenVars, dashVars, metricsVars, otherVars>>

Next ==
    \/ Navigate
    \/ HandleImageUpload
    \/ HandleImageUploadFailed
    \/ UpdateBetField
    \/ HandleSubmitRejected
    \/ HandleSubmitConfirmed
    \/ ConfirmPostA
    \/ ConfirmPostAFailed
    \/ ConfirmPostB
    \/ ConfirmPostBFailed
    \/ HandleOCRCancel
    \/ LoadBets
    \/ LoadBetsFailed

Spec == Init /\ [][Next]_vars

(***************************************************************************)
(* Reading the prop the way the data model describes a pair: the legs of   *)
(* pairId p at one position, and a pair that has exactly one A and one B.  *)
(***************************************************************************)
LegsAt(bs, p, pos) ==
    {i \in DOMAIN bs : bs[i].pairId = p /\ bs[i].betPosition = pos}

LegsOfPair(bs, p) == {i \in DOMAIN bs : bs[i].pairId = p}

CompletePair(bs, p) ==
    /\ Cardinality(LegsAt(bs, p, "A")) = 1
    /\ Cardinality(LegsAt(bs, p, "B")) = 1

LegOf(bs, p, pos) == bs[CHOOSE i \in LegsAt(bs, p, pos) : TRUE]

Reported(p) == view.rendered /\ p \in DOMAIN view.pairStats

\* C1: a complete pair with a pending leg is reported pending with
\* netResult 0, whatever the other leg's status, stake and payout are.
C1_PendingLegGivesPendingPair ==
    view.rendered =>
        \A p \in PairIds :
            (/\ CompletePair(bets, p)
             /\ \/ LegOf(bets, p, "A").status = "pending"
                \/ LegOf(bets, p, "B").status = "pending")
            => /\ Reported(p)
               /\ view.pairStats[p].status = "pending"
               /\ view.pairStats[p].netResult = 0

C1_Witness ==
    /\ view.rendered
    /\ \E p \in PairIds :
        /\ CompletePair(bets, p)
        /\ LegOf(bets, p, "A").status = "won"
        /\ LegOf(bets, p, "B").status = "pending"
        /\ Reported(p)
        /\ view.pairStats[p].status = "pending"

\* the stakes of the returned legs of a complete pair
ReturnedStakes(a, b) ==
    (IF a.status = "returned" THEN a.stake ELSE 0)
        + (IF b.status = "returned" THEN b.stake ELSE 0)

\* C2: a complete pair with no pending leg, not both legs returned, and a won
\* leg is reported won with netResult = payout of a winning leg + stakes of
\* the returned legs - (stakeA + stakeB); legA = {stake 100, won, payout 250}
\* and legB = {stake 100, lost} give won and 50.
C2_WonPairNetResult ==
    view.rendered =>
        \A p \in PairIds :
            CompletePair(bets, p) =>
                LET a == LegOf(bets, p, "A")
                    b == LegOf(bets, p, "B")
                IN  (/\ a.status # "pending" /\ b.status # "pending"
                     /\ ~(a.status = "returned" /\ b.status = "returned")
                     /\ (a.status = "won" \/ b.status = "won"))
                    => /\ Reported(p)
                       /\ view.pairStats[p].status = "won"
                       /\ view.pairStats[p].netResult \in
                            {w.payout + ReturnedStakes(a, b) - (a.stake + b.stake) :
                                w \in {l \in {a, b} : l.status = "won"}}
                       /\ (/\ a.stake = 100 /\ a.status = "won" /\ a.payout = 250
                           /\ b.stake = 100 /\ b.status = "lost")
                          => view.pairStats[p].netResult = 50

C2_Witness ==
    /\ view.rendered
    /\ \E p \in PairIds :
        /\ CompletePair(bets, p)
        /\ LegOf(bets, p, "A").status = "returned"
        /\ LegOf(bets, p, "A").stake = 150
        /\ LegOf(bets, p, "B").status = "won"
        /\ LegOf(bets, p, "B").stake = 100
        /\ Reported(p)
        /\ view.pairStats[p].netResult = 250 + 150 - 250

\* C3: a complete pair with no pending leg, no won leg and not both legs
\* returned is reported lost with netResult = stakes of the returned legs
\* - (stakeA + stakeB).
C3_LostPairNetResult ==
    view.rendered =>
        \A p \in PairIds :
            CompletePair(bets, p) =>
                LET a == LegOf(bets, p, "A")
                    b == LegOf(bets, p, "B")
                IN  (/\ a.status \in {"lost", "returned"}
                     /\ b.status \in {"lost", "returned"}
                     /\ ~(a.status = "returned" /\ b.status = "returned"))
                    => /\ Reported(p)
                       /\ view.pairStats[p].status = "lost"
                       /\ view.pairStats[p].netResult =
                            ReturnedStakes(a, b) - (a.stake + b.stake)

C3_Witness ==
    /\ view.rendered
    /\ \E p \in PairIds :
        /\ CompletePair(bets, p)
        /\ LegOf(bets, p, "A").status = "lost"
        /\ LegOf(bets, p, "A").stake = 100
        /\ LegOf(bets, p, "B").status = "returned"
        /\ LegOf(bets, p, "B").stake = 150
        /\ Reported(p)
        /\ view.pairStats[p].status = "lost"
        /\ view.pairStats[p].netResult = 0 - 100

\* C4: a complete pair whose legs are both returned is reported returned with
\* netResult 0, for any stakes and payouts.
C4_BothReturned ==
    view.rendered =>
        \A p \in PairIds :
            (/\ CompletePair(bets, p)
             /\ LegOf(bets, p, "A").status = "returned"
             /\ LegOf(bets, p, "B").status = "returned")
            => /\ Reported(p)
               /\ view.pairStats[p].status = "returned"
               /\ view.pairStats[p].netResult = 0

C4_Witness ==
    /\ view.rendered
    /\ \E p \in PairIds :
        /\ CompletePair(bets, p)
        /\ LegOf(bets, p, "A").status = "returned"
        /\ LegOf(bets, p, "B").status = "returned"
        /\ LegOf(bets, p, "A").stake # LegOf(bets, p, "B").stake
        /\ Reported(p)
        /\ view.pairStats[p].status = "returned"

\* C5: when both legs of a complete pair are won, the pair is reported (no
\* failure), its status is won, and leg A is the winning leg:
\* netResult = payout(A) - (stakeA + stakeB).
C5_BothWonUsesLegA ==
    view.rendered =>
        \A p \in PairIds :
            (/\ CompletePair(bets, p)
             /\ LegOf(bets, p, "A").status = "won"
             /\ LegOf(bets, p, "B").status = "won")
            => /\ Reported(p)
               /\ view.pairStats[p].status = "won"
               /\ view.pairStats[p].netResult =
                    LegOf(bets, p, "A").payout
                        - (LegOf(bets, p, "A").stake + LegOf(bets, p, "B").stake)

C5_Witness ==
    /\ view.rendered
    /\ \E p \in PairIds :
        /\ CompletePair(bets, p)
        /\ LegOf(bets, p, "A").status = "won"
        /\ LegOf(bets, p, "B").status = "won"
        /\ LegOf(bets, p, "A").payout # LegOf(bets, p, "B").payout
        /\ Reported(p)
        /\ view.pairStats[p].status = "won"

\* C6: a pairId with a single leg, whatever that leg's status, is reported
\* pending with netResult 0, totalStake = that leg's stake and incomplete =
\* true; a complete pair is reported with incomplete = false.
C6_IncompletePair ==
    view.rendered =>
        \A p \in PairIds :
            /\ Cardinality(LegsOfPair(bets, p)) = 1 =>
                LET l == bets[CHOOSE i \in LegsOfPair(bets, p) : TRUE]
                IN  /\ Reported(p)
                    /\ view.pairStats[p].status = "pending"
                    /\ view.pairStats[p].netResult = 0
                    /\ view.pairStats[p].totalStake = l.stake
                    /\ view.pairStats[p].incomplete = TRUE
            /\ CompletePair(bets, p) =>
                /\ Reported(p)
                /\ view.pairStats[p].incomplete = FALSE

C6_Witness ==
    /\ view.rendered
    /\ \E p \in PairIds :
        /\ Cardinality(LegsOfPair(bets, p)) = 1
        /\ bets[CHOOSE i \in LegsOfPair(bets, p) : TRUE].status = "won"
        /\ Reported(p)
        /\ view.pairStats[p].incomplete = TRUE
    /\ \E q \in PairIds : CompletePair(bets, q) /\ Reported(q)

\* the pairIds that have a leg but lack leg A or lack leg B
MissingALeg(bs) ==
    {p \in PairIds :
        /\ LegsOfPair(bs, p) # {}
        /\ (LegsAt(bs, p, "A") = {} \/ LegsAt(bs, p, "B") = {})}

\* C7: in the aggregate statistics a pair that is missing a leg is counted in
\* incompletePairs and is not counted in pendingPairs.
C7_IncompleteNotCountedPending ==
    view.rendered =>
        /\ view.stats.incompletePairs = Cardinality(MissingALeg(bets))
        /\ view.stats.pendingPairs =
                Cardinality({p \in DOMAIN view.pairStats \ MissingALeg(bets) :
                                view.pairStats[p].status = "pending"})

\* the exact value ((payout - totalStake) / totalStake) * 100 is p
IsProfitPercentage(p, payout, totalStake) ==
    /\ p.kind = "finite"
    /\ p.den > 0
    /\ p.num * totalStake = (payout - totalStake) * 100 * p.den

\* C8: calculatePairMetrics returns totalStake = stakeA + stakeB and, when
\* totalStake > 0, profitPercentageX = ((payoutX - totalStake) / totalStake)
\* * 100; (100, 100, 250, 0) gives 200, 25 and -100.
C8_PairMetrics ==
    metricsOut.called =>
        LET in == metricsIn
            out == metricsOut.value
        IN  /\ out.totalStake = in.stakeA + in.stakeB
            /\ out.totalStake > 0 =>
                /\ IsProfitPercentage(out.profitPercentageA, in.payoutA,
                                      in.stakeA + in.stakeB)
                /\ IsProfitPercentage(out.profitPercentageB, in.payoutB,
                                      in.stakeA + in.stakeB)
            /\ in = [stakeA |-> 100, stakeB |-> 100, payoutA |-> 250, payoutB |-> 0] =>
                /\ out.totalStake = 200
                /\ out.profitPercentageA = [kind |-> "finite", num |-> 25, den |-> 1]
                /\ out.profitPercentageB = [kind |-> "finite", num |-> 0 - 100, den |-> 1]

C8_Witness ==
    /\ metricsOut.called
    /\ metricsIn = [stakeA |-> 100, stakeB |-> 100, payoutA |-> 250, payoutB |-> 0]
    /\ metricsOut.value.profitPercentageA.num = 25

\* C9: when stakeA + stakeB = 0, calculatePairMetrics returns totalStake 0 and
\* both profit percentages 0 for any payouts: a finite zero, never NaN or an
\* infinity.
C9_ZeroTotalStake ==
    (metricsOut.called /\ metricsIn.stakeA + metricsIn.stakeB = 0) =>
        /\ metricsOut.value.totalStake = 0
        /\ metricsOut.value.profitPercentageA = [kind |-> "finite", num |-> 0, den |-> 1]
        /\ metricsOut.value.profitPercentageB = [kind |-> "finite", num |-> 0, den |-> 1]

C9_Witness ==
    /\ metricsOut.called
    /\ metricsIn.stakeA = 0 - 100
    /\ metricsIn.stakeB = 100
    /\ metricsIn.payoutA = 250
    /\ metricsOut.value.profitPercentageA.num = 0

\* C10: the two leg records that a confirmation of a validated form submits
\* for creation carry the same pairId, betPosition A for the first and B for
\* the second, status pending, isVerified true, and the same totalPairStake,
\* equal to stakeA + stakeB.
C10_ConfirmedLegRecords ==
    \A i \in DOMAIN calls :
        calls[i].kind = "confirm" =>
            LET first == calls[i].betAData
                second == calls[i].betBData
            IN  /\ first.pairId = second.pairId
                /\ first.betPosition = "A"
                /\ second.betPosition = "B"
                /\ first.status = "pending" /\ second.status = "pending"
                /\ first.isVerified = TRUE /\ second.isVerified = TRUE
                /\ first.totalPairStake = second.totalPairStake
                /\ first.totalPairStake =
                        NumberOf(first.stake) + NumberOf(second.stake)
                /\ calls[i].pc = "postB" =>
                        \E r \in storage :
                            r.pairId = first.pairId /\ r.betPosition = "A"

C10_Witness ==
    \E i \in DOMAIN calls :
        /\ calls[i].kind = "confirm"
        /\ calls[i].pc = "postB"
        /\ calls[i].betAData.stake = "1.00"
        /\ calls[i].betBData.stake = "1.50"
        /\ calls[i].betBData.totalPairStake = 250
        /\ \E r \in storage :
            /\ r.pairId = calls[i].betAData.pairId
            /\ r.betPosition = "A"
            /\ r.totalPairStake = 250

(***************************************************************************)
(* server: the routes of /api/bets over DatabaseStorage, called by any     *)
(* client of the API.  A request carries an id that was given or one that  *)
(* never was, and a PUT body a status of the enum or one outside it.       *)
(***************************************************************************)
RequestIds == 1..(MaxBets + 1)

\* the status of a PUT body: two values of the enum and one outside it
StatusInputs == {"pending", "won", "cancelled"}

\* the slip whose legs the clients post
ServerForm == CHOOSE f \in OCRResults : validateForm(f) = {}

\* the date of the slip as the text 26/09/2025
Slash26092025 == DateString("/", <<2, 6>>, <<0, 9>>, <<2, 0, 2, 5>>)

\* the bodies of POST /api/bets: leg A of the slip under pairId p1 at either
\* betPosition (gameDate 26-09-2025) and under pairId p2 (gameDate
\* 26/09/2025), and a body whose odds is not the text of a number
PostBodies ==
    {[betDataOf(ServerForm, "betA", "p1") EXCEPT !.betPosition = pos] :
        pos \in Positions}
    \cup {[betDataOf(ServerForm, "betA", "p2") EXCEPT !.gameDate = Slash26092025]}
    \cup {[betDataOf(ServerForm, "betA", "p1") EXCEPT !.odds = "abc"]}

\* db.select().from(bets).where(eq(bets.id, id)) yields a row
hasBet(id) == \E r \in storage : r.id = id

updateBetStatus_WholePair(id, status) ==
    {IF \E t \in storage : t.id = id /\ t.pairId = r.pairId
        THEN [r EXCEPT !.status = status] ELSE r : r \in storage}

\* DatabaseStorage.updateBetStatus: update(bets).set({ status }).where(id)
updateBetStatus(id, status) ==
    {IF r.id = id THEN [r EXCEPT !.status = status] ELSE r : r \in storage}

deleteBet_WholePair(id) ==
    {r \in storage : \A t \in storage : t.id = id => t.pairId # r.pairId}

\* DatabaseStorage.deleteBet: delete(bets).where(id)
deleteBet(id) == {r \in storage : r.id # id}

deleteBetResult_Always(existed, hasRowsAffected) == TRUE

\* (result as any).rowsAffected > 0: the count of deleted rows when the
\* driver's result has that field, and undefined > 0, false, when it has not
deleteBetResult(existed, hasRowsAffected) == existed /\ hasRowsAffected

validStatus_Any(status) == TRUE

\* ['pending', 'won', 'lost', 'returned'].includes(status)
validStatus(status) == status \in {"pending", "won", "lost", "returned"}

\* what a route leaves alone
clientVars == <<dashVars, metricsVars, screenVars, calls, validatorVars, helperVars>>

InitServer ==
    /\ storage = {}
    /\ nextId = 1
    /\ response = NoResponse
    /\ bets = <<>>
    /\ view = NoView
    /\ metricsIn = NoCall
    /\ metricsOut = NoCall
    /\ currentState = "dashboard"
    /\ currentOCRData = "null"
    /\ currentImageUrl = ""
    /\ formData = NoForm
    /\ errors = {}
    /\ calls = <<>>
    /\ validatorIn = NoCall
    /\ validatorOut = NoCall
    /\ helperIn = NoCall
    /\ helperOut = NoCall
    /\ reportsView = NoView

\* app.post("/api/bets"): 201 with the row, or 500 when createBet throws
PostBets(body, dbOk) ==
    /\ nextId <= MaxBets
    /\ IF dbOk /\ insertAccepted(postBetBody(body))
        THEN /\ PostBet(body)
             /\ response' = [route |-> "POST /api/bets", code |-> 201]
        ELSE /\ response' = [route |-> "POST /api/bets", code |-> 500]
             /\ UNCHANGED serverVars
    /\ UNCHANGED clientVars

\* app.get("/api/bets/:id")
GetBet(id, dbOk) ==
    /\ response' = [route |-> "GET /api/bets/:id",
                    code |-> IF ~dbOk THEN 500
                             ELSE IF hasBet(id) THEN 200 ELSE 404]
    /\ UNCHANGED <<serverVars, clientVars>>

\* app.put("/api/bets/:id/status")
PutBetStatus(id, status, dbOk) ==
    /\ IF ~validStatus(status)
        THEN /\ response' = [route |-> "PUT /api/bets/:id/status", code |-> 400]
             /\ UNCHANGED serverVars
       ELSE IF ~dbOk
        THEN /\ response' = [route |-> "PUT /api/bets/:id/status", code |-> 500]
             /\ UNCHANGED serverVars
       ELSE IF hasBet(id)
        THEN /\ storage' = updateBetStatus(id, status)
             /\ response' = [route |-> "PUT /api/bets/:id/status", code |-> 200]
             /\ UNCHANGED nextId
        ELSE /\ response' = [route |-> "PUT /api/bets/:id/status", code |-> 404]
             /\ UNCHANGED serverVars
    /\ UNCHANGED clientVars

\* app.delete("/api/bets/:id")
DeleteBet(id, dbOk, hasRowsAffected) ==
    /\ IF ~dbOk
        THEN /\ response' = [route |-> "DELETE /api/bets/:id", code |-> 500]
             /\ UNCHANGED serverVars
        ELSE /\ storage' = deleteBet(id)
             /\ response' =
                    [route |-> "DELETE /api/bets/:id",
                     code |-> IF deleteBetResult(hasBet(id), hasRowsAffected)
                                THEN 204 ELSE 404]
             /\ UNCHANGED nextId
    /\ UNCHANGED clientVars

NextServer ==
    \/ \E body \in PostBodies, dbOk \in BOOLEAN : PostBets(body, dbOk)
    \/ \E id \in RequestIds, dbOk \in BOOLEAN : GetBet(id, dbOk)
    \/ \E id \in RequestIds, status \in StatusInputs, dbOk \in BOOLEAN :
            PutBetStatus(id, status, dbOk)
    \/ \E id \in RequestIds, dbOk \in BOOLEAN, hasRowsAffected \in BOOLEAN :
            DeleteBet(id, dbOk, hasRowsAffected)

SpecServer == InitServer /\ [][NextServer]_vars

\* C11: whatever requests were served, no pairId is shared by more than two
\* stored legs
C11_AtMostTwoLegsPerPair ==
    \A p \in PairIds : Cardinality({r \in storage : r.pairId = p}) <= 2

\* C12: whatever requests were served, two stored legs that share a pairId
\* have different betPosition values
C12_PairLegsDifferInPosition ==
    \A r1, r2 \in storage :
        (r1.id # r2.id /\ r1.pairId = r2.pairId) => r1.betPosition # r2.betPosition

\* C18: a PUT /api/bets/:id/status whose status is outside pending, won,
\* lost, returned is answered with an error (400) and changes no stored leg,
\* and after every request each stored leg's status is one of the four values
C18_InvalidStatusRejected ==
    [][/\ \A id \in RequestIds, status \in StatusInputs \ Statuses, dbOk \in BOOLEAN :
            PutBetStatus(id, status, dbOk) =>
                (response'.code = 400 /\ storage' = storage)
       /\ \A r \in storage' : r.status \in Statuses]_vars

\* a PUT with a status outside the enum was just refused while legs are
\* stored, one of them resolved by an earlier PUT
C18_Witness ==
    /\ response = [route |-> "PUT /api/bets/:id/status", code |-> 400]
    /\ \E r \in storage : r.status = "won"

\* C19: a status update, a delete or a get-by-id addressed to an id that is
\* not in storage is answered 404, which is not the 500 of a failing storage
\* call, and leaves storage unchanged
C19_UnknownIdIsNotFound ==
    [][\A id \in RequestIds : ~hasBet(id) =>
        /\ \A dbOk \in BOOLEAN :
                GetBet(id, dbOk) =>
                    /\ storage' = storage
                    /\ response'.code = (IF dbOk THEN 404 ELSE 500)
        /\ \A status \in StatusInputs \cap Statuses, dbOk \in BOOLEAN :
                PutBetStatus(id, status, dbOk) =>
                    /\ storage' = storage
                    /\ response'.code = (IF dbOk THEN 404 ELSE 500)
        /\ \A dbOk \in BOOLEAN, hasRowsAffected \in BOOLEAN :
                DeleteBet(id, dbOk, hasRowsAffected) =>
                    /\ storage' = storage
                    /\ response'.code = (IF dbOk THEN 404 ELSE 500)]_vars

\* a status update for an id that is not stored was just answered 404 while
\* other legs are stored
C19_Witness ==
    /\ response = [route |-> "PUT /api/bets/:id/status", code |-> 404]
    /\ storage # {}

(***************************************************************************)
(* shared/schema.ts: singleBetOCRSchema, ocrDataSchema, validateBetPair.   *)
(* A schema is modelled by the paths of the issues its parse reports; the  *)
(* values are strings, so no check aborts the parse and the refinement of  *)
(* ocrDataSchema always runs.                                              *)
(***************************************************************************)
\* singleBetOCRSchema: min(1) on the texts, the refinements on the numbers
singleBetOCRSchema(b) ==
    (IF b.bettingHouse = "" THEN {"bettingHouse"} ELSE {})
    \cup (IF b.teamA = "" THEN {"teamA"} ELSE {})
    \cup (IF b.teamB = "" THEN {"teamB"} ELSE {})
    \cup (IF b.betType = "" THEN {"betType"} ELSE {})
    \cup (IF ~(~IsNaNText(b.odds) /\ NumberOf(b.odds) > 0) THEN {"odds"} ELSE {})
    \cup (IF ~(~IsNaNText(b.stake) /\ NumberOf(b.stake) > 0) THEN {"stake"} ELSE {})
    \cup (IF ~(~IsNaNText(b.profit)) THEN {"profit"} ELSE {})

\* isNaN(parseFloat(val.replace('%', ''))): parseFloat('') is NaN
IsNaNParseFloat(text) == text = "" \/ IsNaNText(text)

\* the refinement of ocrDataSchema: normalize = team.trim().toLowerCase()
ocrDataRefine(data) ==
    /\ LowerOf(TrimOf(data.betA.teamA)) = LowerOf(TrimOf(data.betB.teamA))
    /\ LowerOf(TrimOf(data.betA.teamB)) = LowerOf(TrimOf(data.betB.teamB))

\* ocrDataSchema: the issues of both legs and of the game fields, and the
\* issue of the refinement at path betB.teamA
ocrDataSchema(data) ==
    {"betA." \o k : k \in singleBetOCRSchema(data.betA)}
    \cup {"betB." \o k : k \in singleBetOCRSchema(data.betB)}
    \cup (IF data.sport = "" THEN {"sport"} ELSE {})
    \cup (IF data.league = "" THEN {"league"} ELSE {})
    \cup (IF IsNaNParseFloat(data.totalProfitPercentage)
            THEN {"totalProfitPercentage"} ELSE {})
    \cup (IF ~ocrDataRefine(data) THEN {"refine: betB.teamA"} ELSE {})

validateBetPair_NoPosition(betA, betB) ==
    (IF betA.pairId # betB.pairId
        THEN <<"Apostas devem ter o mesmo pairId">> ELSE <<>>)
    \o (IF betA.teamA # betB.teamA \/ betA.teamB # betB.teamB
        THEN <<"Times devem ser iguais em ambas as apostas">> ELSE <<>>)

\* validateBetPair: the messages pushed, in order (accents dropped)
validateBetPair(betA, betB) ==
    (IF betA.pairId # betB.pairId
        THEN <<"Apostas devem ter o mesmo pairId">> ELSE <<>>)
    \o (IF betA.teamA # betB.teamA \/ betA.teamB # betB.teamB
        THEN <<"Times devem ser iguais em ambas as apostas">> ELSE <<>>)
    \o (IF betA.betPosition = betB.betPosition
        THEN <<"Apostas devem ser em lados opostos">> ELSE <<>>)
    \o (IF betA.betPosition = betB.betPosition
        THEN <<"Posicoes das apostas devem ser diferentes (A e B)">> ELSE <<>>)

\* the texts of the fields of leg A, and of the team names of leg B, that the
\* validators are called with
ValidatorOdds == {"", "0", "2.50", "abc"}

ValidatorStakes == {"-1.00", "1.00"}

ValidatorProfits == {"", "0", "-1.00", "abc"}

ValidatorTeamsA == {"Flamengo", "flamengo ", "Santos", "Palmeiras"}

ValidatorTeamsB == {"Santos", " Santos", "Flamengo"}

\* an OCRData value: leg A names Flamengo and Santos
ValidatorForms ==
    {[mounted |-> TRUE,
      betA |-> [bettingHouse |-> h, teamA |-> "Flamengo", teamB |-> "Santos",
                betType |-> t, odds |-> o, stake |-> st, profit |-> pr],
      betB |-> [bettingHouse |-> "Betano", teamA |-> tA, teamB |-> tB,
                betType |-> "Under 2.5", odds |-> "2.50", stake |-> "1.50",
                profit |-> "1.00"],
      gameDate |-> d, gameTime |-> "20:00", sport |-> "Futebol",
      league |-> "Serie A", totalProfitPercentage |-> "2.50"] :
        h \in {"", "Bet365"}, t \in {"", "Over 2.5"}, o \in ValidatorOdds,
        st \in ValidatorStakes, pr \in ValidatorProfits,
        tA \in ValidatorTeamsA, tB \in ValidatorTeamsB,
        d \in {EmptyString, Dash26092025}}

\* the Partial<Bet> of a leg: the fields validateBetPair reads
pairLegOf(in, bet) ==
    [pairId |-> IF bet = "betA" THEN "p1" ELSE in.pairIdB,
     teamA |-> in.data[bet].teamA,
     teamB |-> in.data[bet].teamB,
     betPosition |-> IF bet = "betA" THEN "A" ELSE in.positionB]

InitValidators ==
    /\ validatorIn \in [called : {TRUE}, data : ValidatorForms,
                        pairIdB : PairIds, positionB : Positions]
    /\ validatorOut = NoCall
    /\ helperIn = NoCall
    /\ helperOut = NoCall
    /\ reportsView = NoView
    /\ storage = {}
    /\ nextId = 1
    /\ response = NoResponse
    /\ bets = <<>>
    /\ view = NoView
    /\ metricsIn = NoCall
    /\ metricsOut = NoCall
    /\ currentState = "dashboard"
    /\ currentOCRData = "null"
    /\ currentImageUrl = ""
    /\ formData = NoForm
    /\ errors = {}
    /\ calls = <<>>

\* each validator is called with the value
Validate ==
    /\ validatorOut = NoCall
    /\ validatorOut' =
            [called |-> TRUE,
             validateForm |-> validateForm(validatorIn.data),
             singleBetOCRSchema |-> singleBetOCRSchema(validatorIn.data.betA),
             ocrDataSchema |-> ocrDataSchema(validatorIn.data),
             validateBetPair |-> validateBetPair(pairLegOf(validatorIn, "betA"),
                                                 pairLegOf(validatorIn, "betB"))]
    /\ UNCHANGED <<validatorIn, response, dashVars, metricsVars, appVars, helperVars>>

NextValidators == Validate

SpecValidators == InitValidators /\ [][NextValidators]_vars

\* the two legs as validateBetPair received them
LegA == pairLegOf(validatorIn, "betA")

LegB == pairLegOf(validatorIn, "betB")

\* C13: validateBetPair returns a non-empty error list whenever the two
\* betPosition values are equal, and an empty list whenever the legs have the
\* same pairId, the same teamA and teamB, and different betPosition values
C13_ValidateBetPair ==
    validatorOut.called =>
        /\ LegA.betPosition = LegB.betPosition => validatorOut.validateBetPair # <<>>
        /\ (/\ LegA.pairId = LegB.pairId
            /\ LegA.teamA = LegB.teamA
            /\ LegA.teamB = LegB.teamB
            /\ LegA.betPosition # LegB.betPosition)
                => validatorOut.validateBetPair = <<>>

\* validateBetPair refused two legs of one pair and the same teams only for
\* their equal positions
C13_Witness ==
    /\ validatorOut.called
    /\ LegA.pairId = LegB.pairId
    /\ LegA.teamA = LegB.teamA /\ LegA.teamB = LegB.teamB
    /\ LegA.betPosition = LegB.betPosition
    /\ Len(validatorOut.validateBetPair) = 2

\* a team name without letter case and without the whitespace around it
CanonicalTeam(text) ==
    CASE text \in {"Flamengo", "flamengo "} -> "flamengo"
      [] text \in {"Santos", " Santos"} -> "santos"
      [] text = "Palmeiras" -> "palmeiras"

TeamMessage == "Times devem ser iguais em ambas as apostas"

PairHasTeamError ==
    \E i \in DOMAIN validatorOut.validateBetPair :
        validatorOut.validateBetPair[i] = TeamMessage

\* C14: two legs whose teamA values and teamB values differ only in letter
\* case or in leading or trailing whitespace pass the team check of the
\* verification form, of the ocrDataSchema refinement and of validateBetPair,
\* and legs whose normalized names differ get the team error of each
C14_TeamCheckNormalized ==
    validatorOut.called =>
        IF /\ CanonicalTeam(LegA.teamA) = CanonicalTeam(LegB.teamA)
           /\ CanonicalTeam(LegA.teamB) = CanonicalTeam(LegB.teamB)
        THEN /\ "teams" \notin validatorOut.validateForm
             /\ "refine: betB.teamA" \notin validatorOut.ocrDataSchema
             /\ ~PairHasTeamError
        ELSE /\ "teams" \in validatorOut.validateForm
             /\ "refine: betB.teamA" \in validatorOut.ocrDataSchema
             /\ PairHasTeamError

\* C15: two legs that name the same two teams with teamA and teamB swapped
\* are accepted as consistent by the verification form and by the
\* ocrDataSchema refinement
C15_TeamCheckOrderInsensitive ==
    (/\ validatorOut.called
     /\ CanonicalTeam(LegA.teamA) = CanonicalTeam(LegB.teamB)
     /\ CanonicalTeam(LegA.teamB) = CanonicalTeam(LegB.teamA))
        => /\ "teams" \notin validatorOut.validateForm
           /\ "refine: betB.teamA" \notin validatorOut.ocrDataSchema

\* the texts that are numbers, and those that are numbers above zero
NumberTexts == {"0", "-1.00", "1.00", "1.50", "2.50"}

PositiveNumberTexts == {"1.00", "1.50", "2.50"}

\* C17: for a leg, the form and singleBetOCRSchema accept odds and stake only
\* when the text is a number above zero, accept profit whenever the text is
\* a number, zero and negative included, and refuse an empty house or bet
\* type; the form refuses an empty game date
C17_FieldRules ==
    validatorOut.called =>
        LET b == validatorIn.data.betA
            form == validatorOut.validateForm
            schema == validatorOut.singleBetOCRSchema
        IN  /\ "betA.odds" \notin form => b.odds \in PositiveNumberTexts
            /\ "odds" \notin schema => b.odds \in PositiveNumberTexts
            /\ "betA.stake" \notin form => b.stake \in PositiveNumberTexts
            /\ "stake" \notin schema => b.stake \in PositiveNumberTexts
            /\ b.profit \in NumberTexts =>
                    ("betA.profit" \notin form /\ "profit" \notin schema)
            /\ b.bettingHouse = "" =>
                    ("betA.bettingHouse" \in form /\ "bettingHouse" \in schema)
            /\ b.betType = "" => ("betA.betType" \in form /\ "betType" \in schema)
            /\ validatorIn.data.gameDate = EmptyString => "gameDate" \in form

\* a leg with a negative profit and good odds and stake went through both
\* validators without an issue on any of its fields
C17_Witness ==
    /\ validatorOut.called
    /\ validatorIn.data.betA.profit = "-1.00"
    /\ validatorIn.data.betA.odds = "2.50"
    /\ validatorIn.data.betA.stake = "1.00"
    /\ validatorOut.singleBetOCRSchema = {}
    /\ \A k \in validatorOut.validateForm : k \in {"teams", "gameDate"}

\* the keys of the fields of a form that break their rule: an empty text, an
\* odds or stake that is not a number above zero, a profit or percentage that
\* is not a number, team names that differ between the legs
FailingFields(form) ==
    UNION {{bet \o "." \o f : f \in
                {f \in {"bettingHouse", "teamA", "teamB", "betType"} :
                    form[bet][f] = ""}
                \cup {f \in {"odds", "stake"} :
                    form[bet][f] \notin PositiveNumberTexts}
                \cup {f \in {"profit"} : form[bet][f] \notin NumberTexts}} :
            bet \in {"betA", "betB"}}
    \cup (IF form.gameDate = EmptyString THEN {"gameDate"} ELSE {})
    \cup {f \in {"sport", "league"} : form[f] = ""}
    \cup (IF form.totalProfitPercentage \notin NumberTexts
            THEN {"totalProfitPercentage"} ELSE {})
    \cup (IF \/ CanonicalTeam(form.betA.teamA) # CanonicalTeam(form.betB.teamA)
             \/ CanonicalTeam(form.betA.teamB) # CanonicalTeam(form.betB.teamB)
            THEN {"teams"} ELSE {})

\* C16: one run of validateForm leaves in the error map a key for every
\* field that breaks its rule, not only the first, and creates nothing; and
\* onConfirm is invoked, and a creation request prepared, only from a form in
\* which no field breaks its rule and for which the error map is empty
C16_SubmitReportsAllAndGates ==
    [][/\ (errors' # errors /\ HandleSubmitRejected) =>
            /\ FailingFields(formData) # {}
            /\ FailingFields(formData) \subseteq errors'
            /\ calls' = calls
            /\ storage' = storage
       /\ Len(calls') > Len(calls) =>
            (FailingFields(formData) = {} /\ validateForm(formData) = {})]_vars

\* a submit reported the empty stakes of both bets at once
C16_Witness ==
    /\ formData # NoForm
    /\ formData.betA.stake = ""
    /\ formData.betB.stake = ""
    /\ errors = {"betA.stake", "betB.stake"}

\* C20: the request for leg B is issued only once leg A is stored, so every
\* stored leg B follows a leg A of its pairId; a handler moves on to its next
\* request only by a creation that succeeded, so when the request for leg A
\* fails leg B is not requested; when a request fails nothing is created or
\* deleted, so after a failed leg B leg A stays stored alone; and no step
\* ever removes a stored leg
C20_SequentialNonAtomic ==
    [][/\ \A i \in DOMAIN calls' :
            (calls'[i].kind = "confirm" /\ calls'[i].pc = "postB") =>
                \E a \in storage' : /\ a.pairId = calls'[i].betAData.pairId
                                    /\ a.betPosition = "A"
       /\ \A r \in storage' :
            r.betPosition = "B" =>
                \E a \in storage' : /\ a.pairId = r.pairId
                                    /\ a.betPosition = "A"
                                    /\ a.id < r.id
       /\ (Len(calls') = Len(calls) /\ calls' # calls) =>
            Cardinality(storage') = Cardinality(storage) + 1
       /\ (Len(calls') < Len(calls) /\ (ConfirmPostAFailed \/ ConfirmPostBFailed)) =>
            storage' = storage
       /\ storage \subseteq storage']_vars

\* the request for leg B failed, or never came: a leg A is stored without a
\* leg B and no confirm handler is in flight
C20_Witness ==
    /\ \E a \in storage :
        /\ a.betPosition = "A"
        /\ ~\E b \in storage : b.pairId = a.pairId /\ b.betPosition = "B"
    /\ \A i \in DOMAIN calls : calls[i].kind # "confirm"

\* ---------------------------------------------------------------------
\* C21: the stored gameDate

\* C21: a leg created with gameDate 26/09/2025 or 26-09-2025 is stored with
\* gameDate equal to the dash-delimited DD-MM-YYYY text 26-09-2025 (the
\* slash form converted by character substitution, no field reordered)
C21_GameDateStoredDDMMYYYY ==
    \A r \in storage : r.gameDate = Dash26092025

\* ---------------------------------------------------------------------
\* C24: what a status update leaves alone

\* C24: a status update answered 200 changes only the status field of the
\* leg of the requested id: every other field of that leg, and every other
\* stored leg (the other leg of its pair included), is unchanged
C24_StatusUpdateFrame ==
    [][\A id \in RequestIds, status \in StatusInputs :
        (/\ response' = [route |-> "PUT /api/bets/:id/status", code |-> 200]
         /\ PutBetStatus(id, status, TRUE)) =>
            /\ \A r \in storage : r.id # id => r \in storage'
            /\ \A r \in storage : r.id = id =>
                    [r EXCEPT !.status = status] \in storage'
            /\ Cardinality(storage') = Cardinality(storage)]_vars

\* a status update was answered 200 and the two legs of a pair now differ in
\* status
C24_Witness ==
    /\ response = [route |-> "PUT /api/bets/:id/status", code |-> 200]
    /\ \E a \in storage, b \in storage :
        /\ a.pairId = b.pairId
        /\ a.betPosition = "A" /\ b.betPosition = "B"
        /\ a.status = "won" /\ b.status = "pending"

\* ---------------------------------------------------------------------
\* C28: the Dashboard net profit

resolvedRow(bet, pairId, id, status) ==
    [createBetRow(postBetBody(betDataOf(ServerForm, bet, pairId)), id)
        EXCEPT !.status = status]

InitDelete ==
    /\ \E statusA \in Statuses, statusB \in Statuses, others \in BOOLEAN :
        /\ storage = {resolvedRow("betA", "p1", 1, statusA),
                      resolvedRow("betB", "p1", 2, statusB)}
                     \cup (IF others THEN {resolvedRow("betA", "p2", 3, "pending")}
                           ELSE {})
        /\ nextId = IF others THEN 4 ELSE 3
    /\ response = NoResponse
    /\ bets = <<>>
    /\ view = NoView
    /\ metricsIn = NoCall
    /\ metricsOut = NoCall
    /\ currentState = "dashboard"
    /\ currentOCRData = "null"
    /\ currentImageUrl = ""
    /\ formData = NoForm
    /\ errors = {}
    /\ calls = <<>>
    /\ validatorIn = NoCall
    /\ validatorOut = NoCall
    /\ helperIn = NoCall
    /\ helperOut = NoCall
    /\ reportsView = NoView

NextDelete ==
    \E id \in RequestIds, dbOk \in BOOLEAN, hasRowsAffected \in BOOLEAN :
        DeleteBet(id, dbOk, hasRowsAffected)

SpecDelete == InitDelete /\ [][NextDelete]_vars

\* ---------------------------------------------------------------------
\* C30: the Dashboard after a delete

\* C30: once one leg of a complete pair is deleted, whatever the statuses of
\* the two legs were, the Dashboard computes for that pair the record of an
\* incomplete pair from the rows that are left: status pending, netResult 0,
\* incomplete, and totalStake the stake of the remaining leg; once the last
\* leg of a pair is deleted the pair has no record at all
C30_DeleteLeavesIncompletePair ==
    [][\A id \in RequestIds, hasRowsAffected \in BOOLEAN :
        (/\ response'.route = "DELETE /api/bets/:id"
         /\ hasBet(id)
         /\ DeleteBet(id, TRUE, hasRowsAffected)) =>
            LET d == CHOOSE r \in storage : r.id = id
                before == {r \in storage : r.pairId = d.pairId}
                rest == {r \in storage' : r.pairId = d.pairId}
                pairStats == pairStatsOf(SortByCreatedAtDesc(storage'))
            IN  /\ (/\ Cardinality(before) = 2
                    /\ {r.betPosition : r \in before} = {"A", "B"}) =>
                        \E r \in before \ {d} :
                            /\ rest = {r}
                            /\ pairStats[d.pairId] =
                                [pairId |-> d.pairId, status |-> "pending",
                                 totalStake |-> r.stake, netResult |-> 0,
                                 incomplete |-> TRUE]
                /\ Cardinality(before) = 1 =>
                        d.pairId \notin DOMAIN pairStats]_vars

\* a delete was answered 204 and the one leg left of pair p1 is a won leg
C30_Witness ==
    /\ response = [route |-> "DELETE /api/bets/:id", code |-> 204]
    /\ \E r \in storage :
        /\ r.pairId = "p1"
        /\ r.status = "won"
        /\ \A o \in storage : o.pairId = "p1" => o = r

(***************************************************************************)
(* BetTracker helpers: sanitizeNumber, parseOCRText and                    *)
(* convertClaudeToOCRFormat.  A text is here the sequence of its           *)
(* characters, each a string; the characters with no ASCII form go by      *)
(* name.                                                                   *)
(***************************************************************************)
MaxChars == 3

\* the characters /[\u00A0\u2009\u202F\s]/ matches, of those considered: space,
\* tab, no-break space, thin space, narrow no-break space
WhitespaceChars == {" ", "TAB", "NBSP", "THIN", "NNBSP"}

\* the text "1 234,56"
Text1234Comma56 == <<"1", " ", "2", "3", "4", ",", "5", "6">>

sanitizeNumber_AsciiSpace(str) ==
    LET stripped == SelectSeq(str, LAMBDA c : c # " ")
    IN  [i \in 1..Len(stripped) |-> IF stripped[i] = "," THEN "." ELSE stripped[i]]

\* str.replace(/[\u00A0\u2009\u202F\s]/g, '').replace(/,/g, '.')
sanitizeNumber(str) ==
    LET stripped == SelectSeq(str, LAMBDA c : c \notin WhitespaceChars)
    IN  [i \in 1..Len(stripped) |-> IF stripped[i] = "," THEN "." ELSE stripped[i]]

DigitChars == <<"0", "1", "2", "3", "4", "5", "6", "7", "8", "9">>

RECURSIVE NatOf(_)
\* the number a run of digits writes
NatOf(ds) ==
    IF ds = <<>> THEN 0
    ELSE 10 * NatOf(SubSeq(ds, 1, Len(ds) - 1))
         + (CHOOSE i \in DOMAIN DigitChars : DigitChars[i] = ds[Len(ds)]) - 1

RECURSIVE DigitsOf(_)
\* the digits that write n >= 0
DigitsOf(n) ==
    IF n < 10 THEN <<DigitChars[n + 1]>>
    ELSE DigitsOf(n \div 10) \o <<DigitChars[(n % 10) + 1]>>

RECURSIVE PowerOf10(_)
PowerOf10(k) == IF k = 0 THEN 1 ELSE 10 * PowerOf10(k - 1)

\* parseFloat of a text of digits with at most one "." among them
parseFloatOf(str) ==
    LET dots == {i \in DOMAIN str : str[i] = "."}
    IN  IF dots = {} THEN Rat(NatOf(str), 1)
        ELSE LET i == CHOOSE j \in dots : TRUE
                 frac == SubSeq(str, i + 1, Len(str))
             IN  Rat(NatOf(SubSeq(str, 1, i - 1) \o frac), PowerOf10(Len(frac)))

\* v.toFixed(2) for a finite v
toFixed2(v) ==
    LET h == RoundDiv(v.num * 100, v.den)
        a == Abs(h)
    IN  (IF h < 0 THEN <<"-">> ELSE <<>>)
        \o DigitsOf(a \div 100) \o <<".">>
        \o <<DigitChars[((a % 100) \div 10) + 1], DigitChars[(a % 10) + 1]>>

\* (parseFloat(stake) * parseFloat(odds) - parseFloat(stake)).toFixed(2)
computedProfit(stake, odds) ==
    LET s == parseFloatOf(stake)
        o == parseFloatOf(odds)
    IN  toFixed2(Rat(s.num * o.num - s.num * o.den, s.den * o.den))

\* odds, stake and profit of a leg as parseOCRText initialises them
DefaultNumbers == [odds |-> <<"0">>, stake |-> <<"0">>, profit |-> <<"0">>]

\* a line of the text that names a betting house before "[E ... USD": one
\* the SureBet pattern matches, with the groups it captures, or one it does
\* not match; the texts shown for odds, stake and profit are a few of the form
\* digits "." digits
BettingLines ==
    {[strict |-> FALSE]}
    \cup [strict : {TRUE},
          odds : {<<"1", ".", "5", "0">>, <<"2", ".", "2", "5">>},
          stake : {<<"1", ".", "0", "0">>, <<"4", "6", ".", "6", "8">>},
          profit : {<<"0", ".", "0", "0">>, <<"0", ".", "5", "0">>,
                    <<"5", ".", "0", "3">>}]

\* the branch taken when bettingLines.length >= 1, for the leg of line k:
\* the captured groups when the line matches, and then, odds and stake being
\* non-empty strings, the profit computed from them
strictBranch(bettingLines, k) ==
    IF Len(bettingLines) < k THEN DefaultNumbers
    ELSE LET m == IF bettingLines[k].strict
                    THEN [odds |-> sanitizeNumber(bettingLines[k].odds),
                          stake |-> sanitizeNumber(bettingLines[k].stake),
                          profit |-> sanitizeNumber(bettingLines[k].profit)]
                    ELSE DefaultNumbers
         IN  IF m.odds # <<>> /\ m.stake # <<>>
                THEN [m EXCEPT !.profit = computedProfit(m.stake, m.odds)]
                ELSE m

\* "Calculate profit if not extracted"
profitBackfill(leg) ==
    IF leg.odds # <<>> /\ leg.stake # <<>>
        /\ (leg.profit = <<>> \/ leg.profit = <<"0">>)
        THEN [leg EXCEPT !.profit = computedProfit(leg.stake, leg.odds)]
        ELSE leg

\* parseOCRText, for the odds, stake and profit of the two legs.  With no
\* betting line the fallback branch runs; its patterns capture numbers only
\* from a line that names a house before "[E n USD", which is a betting
\* line, so there it leaves the numbers as initialised.
parseOCRText(bettingLines) ==
    [betA |-> profitBackfill(IF Len(bettingLines) >= 1
                                THEN strictBranch(bettingLines, 1)
                                ELSE DefaultNumbers),
     betB |-> profitBackfill(IF Len(bettingLines) >= 1
                                THEN strictBranch(bettingLines, 2)
                                ELSE DefaultNumbers)]

\* a response of the extraction service with every field present
ClaudeFull ==
    [betA |-> [bettingHouse |-> "Bet365", betType |-> "Over 2.5",
               odds |-> "2.50", stake |-> "1.00", profit |-> "1.50"],
     betB |-> [bettingHouse |-> "Betano", betType |-> "Under 2.5",
               odds |-> "2.50", stake |-> "1.50", profit |-> "1.00"],
     teamA |-> "Flamengo", teamB |-> "Santos", gameDate |-> Slash26092025,
     gameTime |-> "20:00", sport |-> "Futebol", league |-> "Serie A",
     totalProfitPercentage |-> "2.50%"]

LegTextFields == {"bettingHouse", "betType"}

LegNumericFields == {"odds", "stake", "profit"}

\* an object with only the fields of S present
Restrict(obj, S) == [f \in (DOMAIN obj \cap S) |-> obj[f]]

\* the responses considered: any subset of the fields of the response absent,
\* and each leg object with all, none, the text or the numeric fields
ClaudeResponses ==
    {Restrict([ClaudeFull EXCEPT !.betA = Restrict(ClaudeFull.betA, fieldsA),
                                 !.betB = Restrict(ClaudeFull.betB, fieldsB)],
              present) :
        present \in SUBSET (DOMAIN ClaudeFull),
        fieldsA \in {{}, LegTextFields, LegNumericFields,
                     LegTextFields \cup LegNumericFields},
        fieldsB \in {{}, LegTextFields, LegNumericFields,
                     LegTextFields \cup LegNumericFields}}

\* obj[field] || fallback, for a field that holds a string when present
orElse(obj, field, fallback) ==
    IF field \in DOMAIN obj /\ obj[field] # "" THEN obj[field] ELSE fallback

\* text.replace('%', '')
removePercent(text) == IF text = "2.50%" THEN "2.50" ELSE text

\* one leg of the value convertClaudeToOCRFormat returns
convertedLeg(claudeData, leg) ==
    [bettingHouse |-> orElse(leg, "bettingHouse", ""),
     teamA |-> orElse(claudeData, "teamA", ""),
     teamB |-> orElse(claudeData, "teamB", ""),
     betType |-> orElse(leg, "betType", ""),
     odds |-> orElse(leg, "odds", "0"),
     stake |-> orElse(leg, "stake", "0"),
     profit |-> orElse(leg, "profit", "0")]

\* convertClaudeToOCRFormat: reading a property of claudeData.betA or
\* claudeData.betB throws a TypeError when that object is undefined
convertClaudeToOCRFormat(claudeData) ==
    LET cleanPercentage ==
            removePercent(orElse(claudeData, "totalProfitPercentage", "0"))
        gameDate ==
            IF "gameDate" \in DOMAIN claudeData
                THEN [claudeData.gameDate EXCEPT !.sep = "-"]
                ELSE EmptyString
    IN  IF "betA" \notin DOMAIN claudeData \/ "betB" \notin DOMAIN claudeData
            THEN [threw |-> TRUE]
            ELSE [threw |-> FALSE,
                  value |->
                    [betA |-> convertedLeg(claudeData, claudeData.betA),
                     betB |-> convertedLeg(claudeData, claudeData.betB),
                     gameDate |-> gameDate,
                     gameTime |-> orElse(claudeData, "gameTime", "00:00"),
                     sport |-> orElse(claudeData, "sport", ""),
                     league |-> orElse(claudeData, "league", ""),
                     totalProfitPercentage |-> cleanPercentage]]

(***************************************************************************)
(* Specification of the helpers: one of them is called with an argument.   *)
(***************************************************************************)
InitHelpers ==
    /\ \/ \E k \in 0..MaxChars :
            \E str \in [1..k -> {"1", "2", ",", "."} \cup WhitespaceChars] :
            helperIn = [called |-> TRUE, fn |-> "sanitizeNumber", arg |-> str]
       \/ helperIn = [called |-> TRUE, fn |-> "sanitizeNumber",
                      arg |-> Text1234Comma56]
       \/ \E k \in 0..2 : \E bettingLines \in [1..k -> BettingLines] :
            helperIn = [called |-> TRUE, fn |-> "parseOCRText",
                        arg |-> bettingLines]
       \/ \E claudeData \in ClaudeResponses :
            helperIn = [called |-> TRUE, fn |-> "convertClaudeToOCRFormat",
                        arg |-> claudeData]
    /\ helperOut = NoCall
    /\ reportsView = NoView
    /\ storage = {}
    /\ nextId = 1
    /\ response = NoResponse
    /\ bets = <<>>
    /\ view = NoView
    /\ metricsIn = NoCall
    /\ metricsOut = NoCall
    /\ currentState = "dashboard"
    /\ currentOCRData = "null"
    /\ currentImageUrl = ""
    /\ formData = NoForm
    /\ errors = {}
    /\ calls = <<>>
    /\ validatorIn = NoCall
    /\ validatorOut = NoCall

SanitizeNumber ==
    /\ helperOut = NoCall
    /\ helperIn.fn = "sanitizeNumber"
    /\ helperOut' = [called |-> TRUE, threw |-> FALSE,
                     value |-> sanitizeNumber(helperIn.arg)]
    /\ UNCHANGED <<helperIn, reportsView, response, validatorVars, dashVars,
                   metricsVars, appVars>>

ParseOCRText ==
    /\ helperOut = NoCall
    /\ helperIn.fn = "parseOCRText"
    /\ helperOut' = [called |-> TRUE, threw |-> FALSE,
                     value |-> parseOCRText(helperIn.arg)]
    /\ UNCHANGED <<helperIn, reportsView, response, validatorVars, dashVars,
                   metricsVars, appVars>>

ConvertClaudeToOCRFormat ==
    /\ helperOut = NoCall
    /\ helperIn.fn = "convertClaudeToOCRFormat"
    /\ helperOut' = [called |-> TRUE] @@ convertClaudeToOCRFormat(helperIn.arg)
    /\ UNCHANGED <<helperIn, reportsView, response, validatorVars, dashVars,
                   metricsVars, appVars>>

NextHelpers ==
    \/ SanitizeNumber
    \/ ParseOCRText
    \/ ConvertClaudeToOCRFormat

SpecHelpers == InitHelpers /\ [][NextHelpers]_vars

\* ---------------------------------------------------------------------
\* C22: sanitizeNumber

\* C22: sanitizeNumber applied to its own result returns that result; its
\* result holds no whitespace character (space, tab, no-break space, thin
\* space, narrow no-break space) and no comma; and for "1 234,56" it is
\* "1234.56"
C22_SanitizeNumber ==
    (helperOut.called /\ helperIn.fn = "sanitizeNumber") =>
        /\ sanitizeNumber(helperOut.value) = helperOut.value
        /\ \A i \in DOMAIN helperOut.value :
                helperOut.value[i] \notin WhitespaceChars \cup {","}
        /\ helperIn.arg = Text1234Comma56 =>
                helperOut.value = <<"1", "2", "3", "4", ".", "5", "6">>

\* sanitizeNumber returned for a text with a no-break space and a comma
C22_Witness ==
    /\ helperOut.called
    /\ helperIn.fn = "sanitizeNumber"
    /\ helperIn.arg = <<"1", "NBSP", ",">>
    /\ helperOut.value = <<"1", ".">>

\* ---------------------------------------------------------------------
\* C23: convertClaudeToOCRFormat on a response with fields missing

\* C23: for a response with any subset of its fields absent, the betA or
\* betB object as a whole included, convertClaudeToOCRFormat does not throw,
\* and in the value it returns every missing text field is the empty string
\* and every missing numeric field is "0"
C23_ConvertNeverThrows ==
    (helperOut.called /\ helperIn.fn = "convertClaudeToOCRFormat") =>
        /\ ~helperOut.threw
        /\ \A bet \in {"betA", "betB"} :
            /\ \A f \in LegTextFields :
                (bet \notin DOMAIN helperIn.arg \/ f \notin DOMAIN helperIn.arg[bet])
                    => helperOut.value[bet][f] = ""
            /\ \A f \in LegNumericFields :
                (bet \notin DOMAIN helperIn.arg \/ f \notin DOMAIN helperIn.arg[bet])
                    => helperOut.value[bet][f] = "0"
            /\ \A f \in {"teamA", "teamB"} :
                f \notin DOMAIN helperIn.arg => helperOut.value[bet][f] = ""
        /\ \A f \in {"sport", "league", "gameTime"} :
                f \notin DOMAIN helperIn.arg => helperOut.value[f] = ""
        /\ "gameDate" \notin DOMAIN helperIn.arg =>
                helperOut.value.gameDate = EmptyString
        /\ "totalProfitPercentage" \notin DOMAIN helperIn.arg =>
                helperOut.value.totalProfitPercentage = "0"

\* ---------------------------------------------------------------------
\* C25: the profit parseOCRText returns

\* the leg parseOCRText reads from betting line k
parsedLeg(value, k) == IF k = 1 THEN value.betA ELSE value.betB

\* C25: for a leg whose betting line matched the strict pattern with a
\* profit number that is not zero, the profit parseOCRText returns is that
\* number as extracted; for any other leg it is stake * odds - stake
C25_ProfitBackfillOnlyWhenMissing ==
    (helperOut.called /\ helperIn.fn = "parseOCRText") =>
        \A k \in 1..2 :
            LET leg == parsedLeg(helperOut.value, k)
                extracted ==
                    /\ k <= Len(helperIn.arg)
                    /\ helperIn.arg[k].strict
                    /\ parseFloatOf(helperIn.arg[k].profit).num # 0
            IN  IF extracted
                    THEN leg.profit = sanitizeNumber(helperIn.arg[k].profit)
                    ELSE leg.profit = computedProfit(leg.stake, leg.odds)

(***************************************************************************)
(* Reports: the pairs and the summary it shows, with the default filters   *)
(* (status 'all'), under which filteredBets is the list it loaded.         *)
(***************************************************************************)
\* groupBetsByPair: pairId -> its legs in list order, for the pairIds with
\* exactly two legs
groupBetsByPair(bs) ==
    LET pairs == pairsOf(bs)
    IN  [p \in {q \in DOMAIN pairs : Len(pairs[q]) = 2} |-> pairs[p]]

\* what calculateSummary adds up for one pair, [betA, betB] being its legs in
\* list order
summaryEntryOf(pair) ==
    LET betA == pair[1]
        betB == pair[2]
        pairStake == betA.stake + betB.stake
    IN  IF betA.status = "pending" \/ betB.status = "pending"
            THEN [status |-> "pending", pairStake |-> pairStake, payout |-> 0]
        ELSE IF betA.status = "won" \/ betB.status = "won"
            THEN [status |-> "won", pairStake |-> pairStake,
                  payout |-> IF betA.status = "won" THEN betA.payout
                             ELSE betB.payout]
        ELSE [status |-> "lost", pairStake |-> pairStake, payout |-> 0]

\* calculateSummary
calculateSummary(bs) ==
    LET grouped == groupBetsByPair(bs)
        entries == [p \in DOMAIN grouped |-> summaryEntryOf(grouped[p])]
        totalStake == SumOver(entries, DOMAIN entries, "pairStake")
        totalPayout == SumOver(entries, DOMAIN entries, "payout")
        totalProfit == totalPayout - totalStake
    IN  [totalPairs |-> Cardinality(DOMAIN grouped),
         pendingPairs |-> Cardinality(WithStatus(entries, "pending")),
         resolvedPairs |-> Cardinality(WithStatus(entries, "won"))
                           + Cardinality(WithStatus(entries, "lost")),
         wonPairs |-> Cardinality(WithStatus(entries, "won")),
         lostPairs |-> Cardinality(WithStatus(entries, "lost")),
         totalStake |-> totalStake,
         totalPayout |-> totalPayout,
         totalProfit |-> totalProfit,
         profitPercentage |-> IF totalStake > 0
                                THEN Times(Divide(totalProfit, totalStake), 100)
                                ELSE Rat(0, 1)]

\* pair.sort((a, b) => a.betPosition === 'A' ? -1 : 1) on two legs.  The
\* comparator is not consistent, so the order is the engine's: it calls the
\* comparator with (first, second) or with (second, first), and puts its
\* first argument first on a negative answer
sortPair(pair, firstSecond) ==
    LET a == IF firstSecond THEN pair[1] ELSE pair[2]
        aGoesFirst == a.betPosition = "A"
    IN  IF firstSecond = aGoesFirst THEN pair ELSE <<pair[2], pair[1]>>

\* what the list of pairs shows for one pair
pairCardOf(pair, firstSecond) ==
    LET sorted == sortPair(pair, firstSecond)
        betA == sorted[1]
        betB == sorted[2]
        pairStake == betA.stake + betB.stake
        pairProfit == IF betA.status = "won" THEN betA.payout - pairStake
                      ELSE IF betB.status = "won" THEN betB.payout - pairStake
                      ELSE 0
    IN  [pairId |-> betA.pairId, pairStake |-> pairStake,
         pairProfit |-> pairProfit,
         badge |-> IF betA.status = "pending" \/ betB.status = "pending"
                        THEN "Pendente"
                   ELSE IF pairProfit > 0 THEN "Lucro"
                   ELSE "Prejuizo",
         status |-> summaryEntryOf(pair).status]

\* one render of Reports from the list it loaded
ReportsView(bs, firstSecond) ==
    [rendered |-> TRUE,
     summary |-> calculateSummary(bs),
     betPairs |-> [p \in DOMAIN groupBetsByPair(bs) |->
                    pairCardOf(groupBetsByPair(bs)[p], firstSecond)]]

(***************************************************************************)
(* Specification of Reports beside the Dashboard: both render the same     *)
(* list of at most two legs.                                               *)
(***************************************************************************)
InitReports ==
    /\ \E k \in 0..2 : bets \in [1..k -> DashLegs]
    /\ view = NoView
    /\ reportsView = NoView
    /\ metricsIn = NoCall
    /\ metricsOut = NoCall
    /\ storage = {}
    /\ nextId = 1
    /\ currentState = "dashboard"
    /\ currentOCRData = "null"
    /\ currentImageUrl = ""
    /\ formData = NoForm
    /\ errors = {}
    /\ calls = <<>>
    /\ response = NoResponse
    /\ validatorIn = NoCall
    /\ validatorOut = NoCall
    /\ helperIn = NoCall
    /\ helperOut = NoCall

ReportsRender ==
    /\ reportsView = NoView
    /\ \E firstSecond \in BOOLEAN : reportsView' = ReportsView(bets, firstSecond)
    /\ UNCHANGED <<helperIn, helperOut, response, validatorVars, dashVars,
                   metricsVars, appVars>>

NextReports ==
    \/ DashboardRender
    \/ ReportsRender

SpecReports == InitReports /\ [][NextReports]_vars

\* ---------------------------------------------------------------------
\* C27: Reports against the Dashboard

\* C27: for every complete pair, whatever the statuses of its legs, the
\* result Reports shows for the pair (pairProfit) is the netResult of the
\* Dashboard, and Reports counts the pair as pending, won or lost exactly
\* when that is the status the Dashboard gives it
C27_ReportsAgreesWithDashboard ==
    (view.rendered /\ reportsView.rendered) =>
        \A p \in DOMAIN view.pairStats :
            ~view.pairStats[p].incomplete =>
                /\ p \in DOMAIN reportsView.betPairs
                /\ reportsView.betPairs[p].pairProfit = view.pairStats[p].netResult
                /\ \A s \in {"pending", "won", "lost"} :
                    (reportsView.betPairs[p].status = s)
                        <=> (view.pairStats[p].status = s)

(***************************************************************************)
(* Specification of resolving legs from the Dashboard: the table holds the *)
(* two legs of the slip, BetTracker has just loaded them, and the buttons  *)
(* of the BetCards are clicked.  A click starts handleResolveBet, whose    *)
(* PUT and reload complete later, each in a step of its own.               *)
(***************************************************************************)
InitResolve ==
    /\ \E statusA \in Statuses, statusB \in Statuses :
        storage = {resolvedRow("betA", "p1", 1, statusA),
                   resolvedRow("betB", "p1", 2, statusB)}
    /\ nextId = 3
    /\ bets = getAllBets
    /\ calls = <<>>
    /\ currentState = "dashboard"
    /\ currentOCRData = "null"
    /\ currentImageUrl = ""
    /\ formData = NoForm
    /\ errors = {}
    /\ view = NoView
    /\ metricsIn = NoCall
    /\ metricsOut = NoCall
    /\ response = NoResponse
    /\ validatorIn = NoCall
    /\ validatorOut = NoCall
    /\ helperIn = NoCall
    /\ helperOut = NoCall
    /\ reportsView = NoView

\* a click on Ganhou, Perdeu or Devolvido of a BetCard, shown for a leg whose
\* status in the list on screen is pending: handleResolveBet runs up to its
\* first await
HandleResolveBet ==
    /\ currentState = "dashboard"
    /\ Len(calls) < MaxInFlight
    /\ \E i \in DOMAIN bets, status \in {"won", "lost", "returned"} :
        /\ bets[i].status = "pending"
        /\ calls' = Append(calls, [kind |-> "resolve", pc |-> "put",
                                   betId |-> bets[i].id, status |-> status])
    /\ UNCHANGED <<serverVars, screenVars, dashVars, metricsVars, otherVars>>

\* handleResolveBet: PUT /api/bets/:id/status answers 200 (or 404, which
\* apiRequest throws on); then loadBets is called
ResolvePut ==
    \E i \in DOMAIN calls :
        /\ calls[i].kind = "resolve"
        /\ validStatus(calls[i].status)
        /\ hasBet(calls[i].betId)
        /\ ~apiRequestThrows(200)
        /\ storage' = updateBetStatus(calls[i].betId, calls[i].status)
        /\ calls' = [calls EXCEPT ![i] = LoadCall]
        /\ UNCHANGED <<nextId, screenVars, dashVars, metricsVars, otherVars>>

\* handleResolveBet: the PUT throws; the catch block ends the call
ResolvePutFailed ==
    \E i \in DOMAIN calls :
        /\ calls[i].kind = "resolve"
        /\ FailedAnswers # {}
        /\ calls' = RemoveAt(calls, i)
        /\ UNCHANGED <<serverVars, screenVars, dashVars, metricsVars, otherVars>>

NextResolve ==
    \/ HandleResolveBet
    \/ ResolvePut
    \/ ResolvePutFailed
    \/ LoadBets
    \/ LoadBetsFailed

SpecResolve == InitResolve /\ [][NextResolve]_vars

\* ---------------------------------------------------------------------
\* C26: resolving through the user interface

\* C26: a resolve request is offered only for a leg shown as pending, so
\* whatever the user clicks, the stored status of a leg changes only from
\* pending, and only to won, lost or returned: at most once, and never back
\* to pending
C26_StatusChangesAtMostOnce ==
    [][\A r \in storage, t \in storage' :
        (r.id = t.id /\ r.status # t.status) =>
            (r.status = "pending" /\ t.status \in {"won", "lost", "returned"})]_vars

(***************************************************************************)
(* Specification of one verification session: a slip has been uploaded,    *)
(* the verification screen shows what was read from it, the table is       *)
(* empty, and no further slip is uploaded.                                 *)
(***************************************************************************)
InitSession ==
    /\ formData \in OCRResults
    /\ currentImageUrl = "blob"
    /\ currentOCRData = "set"
    /\ currentState = "verification"
    /\ errors = {}
    /\ storage = {}
    /\ nextId = 1
    /\ bets = <<>>
    /\ calls = <<>>
    /\ view = NoView
    /\ metricsIn = NoCall
    /\ metricsOut = NoCall
    /\ response = NoResponse
    /\ validatorIn = NoCall
    /\ validatorOut = NoCall
    /\ helperIn = NoCall
    /\ helperOut = NoCall
    /\ reportsView = NoView

NextSession ==
    \/ Navigate
    \/ UpdateBetField
    \/ HandleSubmitRejected
    \/ HandleSubmitConfirmed
    \/ ConfirmPostA
    \/ ConfirmPostAFailed
    \/ ConfirmPostB
    \/ ConfirmPostBFailed
    \/ HandleOCRCancel
    \/ LoadBets
    \/ LoadBetsFailed

SpecSession == InitSession /\ [][NextSession]_vars

\* ---------------------------------------------------------------------
\* C29: what one verification session creates

\* C29: however the Confirm clicks and the completions of the requests
\* interleave, the legs created from one uploaded slip are at most two, of
\* one pairId
C29_OneSessionOnePair ==
    /\ Cardinality(storage) <= 2
    /\ Cardinality({r.pairId : r \in storage}) <= 1
====
